---- MODULE Spec2Model ----
(***************************************************************************)
(* dns-rewrites-sync: hub -> spoke reconciliation of DNS rewrite records.  *)
(*                                                                         *)
(* The module models                                                       *)
(*   - the record model (DNSRecord and its canonical strings),             *)
(*   - the reconciliation engine in its two implementations,               *)
(*     sync._apply_diff and DNSServer.sync_records,                        *)
(*   - the persistent store (authoritative cache, spoke state, history),   *)
(*   - the orchestrator: refresh_hub_cache, sync_all_enabled_spokes and    *)
(*     perform_sync,                                                       *)
(*   - the web application: the background loop and its settings, the      *)
(*     routes that trigger syncs and clear the history,                    *)
(*   - the Pi-hole adapter's session cache and the base adapter's          *)
(*     _request_with_retry.                                                *)
(*                                                                         *)
(* Canonical strings are sequences of one-character strings, so that       *)
(* parsing and formatting are computed as the code computes them.          *)
(***************************************************************************)
EXTENDS Integers, Sequences, FiniteSets, TLC

VARIABLES
    \* --- record round trip (DNSRecord) -----------------------------------
    rt_str,        \* the canonical string handed to from_*_string
    rt_type,       \* "A" or "CNAME": which parser/formatter pair is used
    rt_record,     \* the DNSRecord built by the parser, ValueError or NoRecord
    rt_out,        \* the string produced by to_*_format (set once "formatted")
    rt_pc,         \* "input" -> "parsed" -> "formatted"
    \* --- the DNS servers (external) --------------------------------------
    live,          \* server name -> its live record sets {A, CNAME}
    enabled,       \* spoke name -> the "enabled" flag of its ServerConfig
    \* --- the SQLite store (db.py) ----------------------------------------
    authoritative_records,  \* rows (record_type, record_str) of the hub
    cache_meta,             \* last_updated of the hub cache, 0: no row
    spoke_records,          \* spoke name -> rows (record_type, record_str)
    sync_runs,              \* the history table, oldest row first
    clock,                  \* the wall clock read by the store ("now")
    \* --- notifications.py ------------------------------------------------
    notifications,          \* the notifications dispatched, oldest first
    \* --- the workers running the engine and the orchestrator -------------
    loc,           \* worker -> its operation, position and local variables
    calls,         \* adapter calls made since the last operation started
    nops,          \* number of top-level operations started so far
    \* --- settings.json and config.yaml (app.py) --------------------------
    settings_enabled,  \* the "enabled" key of settings.json (auto-sync)
    hub_configured,    \* a server with sync_mode "hub" is in the config
    \* --- Pi-hole sessions (servers/pihole.py) ----------------------------
    session_cache,     \* _session_cache[base_url]: a sid, 0 when no entry
    pihole             \* the Pi-hole server: its valid sids, sids issued

rtVars == <<rt_str, rt_type, rt_record, rt_out, rt_pc>>
dbVars == <<authoritative_records, cache_meta, spoke_records, sync_runs, clock>>
runVars == <<live, enabled, notifications, loc, calls, nops>>
envVars == <<settings_enabled, hub_configured, session_cache, pihole>>

vars == <<rtVars, dbVars, runVars, envVars>>

None == "None"

(***************************************************************************)
(* Bounds                                                                  *)
(***************************************************************************)
\* longest canonical string drawn for the round trip
MaxLen == 6
\* number of top-level operations started in one behaviour
MaxOps == 2
\* number of store writes that may fail within one operation
MaxFaults == 2
\* largest "retries" value configured for a server
MaxRetries == 3

(***************************************************************************)
(* Strings                                                                 *)
(***************************************************************************)
\* characters of the drawn strings: a letter/digit, a dot, a blank and the
\* two other characters of the CNAME separator
Alphabet == {"a", ".", " ", "-", ">"}

Strings(n) == UNION {[1..k -> Alphabet] : k \in 0..n}

\* index of the first occurrence of sep in s, 0 when there is none
Find(s, sep) ==
    LET hits == {i \in 1..(Len(s) - Len(sep) + 1) :
                    SubSeq(s, i, i + Len(sep) - 1) = sep}
    IN  IF hits = {} THEN 0
        ELSE CHOOSE i \in hits : \A j \in hits : i <= j

\* Python's s.split(sep, 1): the parts around the first occurrence of sep
Split1(s, sep) ==
    LET i == Find(s, sep)
    IN  IF i = 0 THEN <<s>>
        ELSE <<SubSeq(s, 1, i - 1), SubSeq(s, i + Len(sep), Len(s))>>

(***************************************************************************)
(* DNSRecord                                                               *)
(***************************************************************************)
SepA == <<" ">>
SepCname == <<" ", "-", ">", " ">>

DNSRecord(domain, value, type) ==
    [domain |-> domain, value |-> value, type |-> type, ttl |-> None]

\* the outcome of a parse that raised, and the absence of a record
ValueError == [type |-> "ValueError"]
NoRecord == [type |-> "NoRecord"]

\* f"{self.value}{self.domain}": the blank between the two is forgotten
to_a_format_noblank(r) == r.value \o r.domain

to_a_format(r) == r.value \o SepA \o r.domain

to_cname_format(r) == r.domain \o SepCname \o r.value

\* ip, domain = record_str.split(' ', 1): unpacking anything but two parts
\* raises ValueError
from_a_string(record_str) ==
    LET parts == Split1(record_str, SepA)
    IN  IF Len(parts) # 2 THEN ValueError
        ELSE DNSRecord(parts[2], parts[1], "A")

from_cname_string(record_str) ==
    LET parts == Split1(record_str, SepCname)
    IN  IF Len(parts) # 2 THEN ValueError
        ELSE DNSRecord(parts[1], parts[2], "CNAME")

\* the parser and the formatter the engine picks for a record type
from_string(record_type, record_str) ==
    IF record_type = "A" THEN from_a_string(record_str)
    ELSE from_cname_string(record_str)

to_string(r) ==
    IF r.type = "A" THEN to_a_format(r) ELSE to_cname_format(r)

(***************************************************************************)
(* Servers, record sets and the state after construction                   *)
(***************************************************************************)
Hub == "hub"
Spokes == {"s1", "s2"}
Servers == {Hub} \cup Spokes
Workers == {"w1", "w2"}
\* the worker of the runs in which operations do not overlap
SeqWorkers == {"w1"}

RecordTypes == <<"A", "CNAME">>

\* canonical strings the servers hold: "1 n", "2 p", "x -> n", "y -> p"
ARecs == {<<"1", " ", "n">>, <<"2", " ", "p">>}
CnameRecs == {<<"x", " ", "-", ">", " ", "n">>, <<"y", " ", "-", ">", " ", "p">>}

RecordSets == [A : SUBSET ARecs, CNAME : SUBSET CnameRecs]
EmptyRecords == [A |-> {}, CNAME |-> {}]

\* stats = {"added": 0, "removed": 0, "conflicts": 0, "a_records": 0,
\*          "cname_records": 0}
ZeroStats ==
    [added |-> 0, removed |-> 0, conflicts |-> 0, a_records |-> 0,
     cname_records |-> 0]

\* Optional[dict]: the value None, or the record sets of a dict (a missing
\* key reads as the empty set, as source_records.get(record_type, set()))
NoneRecords == [is_none |-> TRUE, A |-> {}, CNAME |-> {}]
Some(records) == [is_none |-> FALSE, A |-> records.A, CNAME |-> records.CNAME]
AsRecords(opt) == [A |-> opt.A, CNAME |-> opt.CNAME]

\* what one add_record / delete_record call can do: return True, return
\* False, or raise
Outcomes == {"True", "False", "raise"}

InitLoc ==
    [op |-> "idle", pc |-> "idle", ret_kind |-> "none",
     source_records |-> EmptyRecords, target |-> "none",
     target_records |-> EmptyRecords, record_type |-> "A",
     to_add |-> {}, to_remove |-> {}, it_add |-> {}, it_remove |-> {},
     stats |-> ZeroStats, dry_run |-> FALSE,
     live0 |-> EmptyRecords, after_clean |-> FALSE, err |-> "",
     hub_records |-> NoneRecords, hub_server |-> FALSE,
     spoke_server |-> FALSE, spokes |-> <<>>, spoke |-> "none",
     results |-> [s \in {} |-> ZeroStats], ret_stats |-> ZeroStats,
     raising |-> FALSE,
     live_at_call |-> [s \in Servers |-> EmptyRecords],
     rows_at_call |-> {}, meta_at_call |-> 0, runs_at_call |-> 0,
     notes_at_call |-> 0,
     spoke_rows_at_call |-> [s \in Spokes |-> {}],
     key |-> "none", tx_open |-> FALSE, tx_rows |-> {}, tx_meta |-> 0,
     read_rows |-> {}, old_rows |-> {}, new_rows |-> {},
     settings |-> [enabled |-> TRUE], enabled_at_wake |-> TRUE,
     sid |-> 0, cached |-> 0, probe |-> "none", requests |-> <<>>,
     orphans |-> {}, cache_at_call |-> 0,
     retries |-> 0, attempt |-> 0, waits |-> <<>>]

InitStore ==
    /\ authoritative_records = {}
    /\ cache_meta = 0
    /\ spoke_records = [s \in Spokes |-> {}]
    /\ sync_runs = <<>>
    /\ clock = 1

InitRun ==
    /\ enabled = [s \in Spokes |-> TRUE]
    /\ notifications = <<>>
    /\ loc = [w \in Workers |-> InitLoc]
    /\ calls = <<>>
    /\ nops = 0

\* auto-sync on (_SETTINGS_DEFAULTS), a hub in the config, no Pi-hole session
InitEnv ==
    /\ settings_enabled = TRUE
    /\ hub_configured = TRUE
    /\ session_cache = 0
    /\ pihole = [valid |-> {}, issued |-> 0]

InitRt ==
    /\ rt_str = <<>>
    /\ rt_type = "A"
    /\ rt_record = NoRecord
    /\ rt_out = <<>>
    /\ rt_pc = "input"

(***************************************************************************)
(* Round trip of one canonical string                                      *)
(***************************************************************************)
InitRecord ==
    /\ rt_str \in Strings(MaxLen)
    /\ rt_type \in {"A", "CNAME"}
    /\ rt_record = NoRecord
    /\ rt_out = <<>>
    /\ rt_pc = "input"
    /\ live = [s \in Servers |-> EmptyRecords]
    /\ InitStore
    /\ InitRun
    /\ InitEnv

FromAString ==
    /\ rt_pc = "input"
    /\ rt_type = "A"
    /\ rt_record' = from_a_string(rt_str)
    /\ rt_pc' = "parsed"
    /\ UNCHANGED <<rt_str, rt_type, rt_out, dbVars, runVars, envVars>>

FromCnameString ==
    /\ rt_pc = "input"
    /\ rt_type = "CNAME"
    /\ rt_record' = from_cname_string(rt_str)
    /\ rt_pc' = "parsed"
    /\ UNCHANGED <<rt_str, rt_type, rt_out, dbVars, runVars, envVars>>

ToAFormat ==
    /\ rt_pc = "parsed"
    /\ rt_record # ValueError
    /\ rt_record.type = "A"
    /\ rt_out' = to_a_format(rt_record)
    /\ rt_pc' = "formatted"
    /\ UNCHANGED <<rt_str, rt_type, rt_record, dbVars, runVars, envVars>>

ToCnameFormat ==
    /\ rt_pc = "parsed"
    /\ rt_record # ValueError
    /\ rt_record.type = "CNAME"
    /\ rt_out' = to_cname_format(rt_record)
    /\ rt_pc' = "formatted"
    /\ UNCHANGED <<rt_str, rt_type, rt_record, dbVars, runVars, envVars>>

NextRecord ==
    \/ FromAString
    \/ FromCnameString
    \/ ToAFormat
    \/ ToCnameFormat

SpecRecord == InitRecord /\ [][NextRecord]_vars

\* a token: a non-empty string without a blank (an ip, a domain, a target)
IsToken(x) == Len(x) > 0 /\ \A i \in 1..Len(x) : x[i] # " "

\* s is left \o sep \o right at position k, with left and right tokens
SplitsAt(s, k, sep) ==
    /\ k + Len(sep) - 1 <= Len(s)
    /\ SubSeq(s, k, k + Len(sep) - 1) = sep
    /\ IsToken(SubSeq(s, 1, k - 1))
    /\ IsToken(SubSeq(s, k + Len(sep), Len(s)))

IsValidA(s) == \E k \in 1..Len(s) : SplitsAt(s, k, SepA)
IsValidCname(s) == \E k \in 1..Len(s) : SplitsAt(s, k, SepCname)

\* C7: for every valid A string "{ip} {domain}" the parsed record has type
\* A, value ip and domain domain, and formatting it gives the string back;
\* for every valid CNAME string "{domain} -> {target}" the parsed record
\* has type CNAME and formatting it gives the string back.
C7_RoundTripLossless ==
    /\ (rt_type = "A" /\ rt_pc # "input") =>
          \A k \in 1..Len(rt_str) :
             SplitsAt(rt_str, k, SepA) =>
                /\ rt_record.type = "A"
                /\ rt_record.value = SubSeq(rt_str, 1, k - 1)
                /\ rt_record.domain = SubSeq(rt_str, k + 1, Len(rt_str))
    /\ (rt_type = "CNAME" /\ rt_pc # "input") =>
          \A k \in 1..Len(rt_str) :
             SplitsAt(rt_str, k, SepCname) =>
                /\ rt_record.type = "CNAME"
                /\ rt_record.domain = SubSeq(rt_str, 1, k - 1)
                /\ rt_record.value = SubSeq(rt_str, k + 4, Len(rt_str))
    /\ (rt_pc = "formatted" /\ rt_type = "A" /\ IsValidA(rt_str)) =>
          rt_out = rt_str
    /\ (rt_pc = "formatted" /\ rt_type = "CNAME" /\ IsValidCname(rt_str)) =>
          rt_out = rt_str

\* a valid CNAME string has been parsed and formatted back
C7_Witness ==
    /\ rt_pc = "formatted"
    /\ rt_type = "CNAME"
    /\ IsValidCname(rt_str)
    /\ rt_record.type = "CNAME"
    /\ rt_out = rt_str

(***************************************************************************)
(* The DNS server behind an adapter                                        *)
(***************************************************************************)
\* one adapter call, as the log keeps it
Call(server, method, record_type, record_str, result) ==
    [server |-> server, method |-> method, record_type |-> record_type,
     record_str |-> record_str, result |-> result]

\* a successful add_record(record): the server now holds the record
ServerAdd(lv, server, record) ==
    [lv EXCEPT ![server][record.type] = @ \cup {to_string(record)}]

\* a successful delete_record(record): the server no longer holds it
ServerDelete(lv, server, record) ==
    [lv EXCEPT ![server][record.type] = @ \ {to_string(record)}]

(***************************************************************************)
(* The reconciliation engine: what both implementations share              *)
(***************************************************************************)
\* to_add = source_set - target_set, with the subtraction forgotten
ToAdd_nodiff(source_set, target_set) == source_set

\* to_add = source_set - target_set
ToAdd(source_set, target_set) == source_set \ target_set

\* to_remove = target_set - source_set, with the subtraction forgotten
ToRemove_nodiff(source_set, target_set) == target_set

\* to_remove = target_set - source_set
ToRemove(source_set, target_set) == target_set \ source_set

\* the head of "for record_type in ['A', 'CNAME']": the two differences of
\* one record type, nothing iterated yet
EnterType(l, record_type) ==
    [l EXCEPT !.record_type = record_type,
              !.to_add = ToAdd(l.source_records[record_type],
                               l.target_records[record_type]),
              !.to_remove = ToRemove(l.source_records[record_type],
                                     l.target_records[record_type]),
              !.it_add = {},
              !.it_remove = {}]

AddsLeft(l) == l.to_add \ l.it_add
RemovesLeft(l) == l.to_remove \ l.it_remove

\* the try/except around one add_record / delete_record call lets the
\* exception through
RecordCallCaught_not(result) == result # "raise"

\* the try/except around one add_record / delete_record call catches
\* whatever the call raises
RecordCallCaught(result) == TRUE

\* the operations that run sync._apply_diff
ApplyDiffOps == {"apply_diff", "sync_all", "perform_sync"}

\* the calls of the current operation that returned False or raised
Faults ==
    {i \in 1..Len(calls) : calls[i].result \in {"False", "raise"}}

\* an orchestrator operation meets at most MaxFaults failing calls; the
\* engine called on its own meets any number
MayFail(l) ==
    l.op \in {"apply_diff", "sync_records"} \/ Cardinality(Faults) < MaxFaults

\* what the next call that returns nothing can do: TRUE returns, FALSE raises
CallOutcomes(l) == IF MayFail(l) THEN BOOLEAN ELSE {TRUE}

\* what the next add_record / delete_record call can do
RecordOutcomes(l) == IF MayFail(l) THEN Outcomes ELSE {"True"}

\* an exception leaves _apply_diff: the direct caller sees it raised, the
\* orchestrator's try block hands it to its except clause
ApplyDiffRaise(l, msg) ==
    IF l.op = "apply_diff"
    THEN [l EXCEPT !.pc = "done", !.ret_kind = "raised"]
    ELSE [l EXCEPT !.pc = "except", !.err = msg]

\* the adapter calls of the log that changed, or tried to change, records
MutatingCalls ==
    {i \in 1..Len(calls) : calls[i].method \in {"add_record", "delete_record"}}

\* the worker's last operation was a complete non-dry-run reconciliation of
\* target t from this source in which every adapter call succeeded
CleanRun(l, t, source_records) ==
    /\ l.pc = "done"
    /\ l.ret_kind = "value"
    /\ l.op \in {"apply_diff", "sync_records"}
    /\ ~l.dry_run
    /\ l.target = t
    /\ l.source_records = source_records
    /\ \A i \in 1..Len(calls) : calls[i].result = "True"

(***************************************************************************)
(* sync._apply_diff                                                        *)
(***************************************************************************)
\* the add loop counts a False return in added
ApplyDiffAddStats_falseadded(stats, result) ==
    IF result = "raise" THEN [stats EXCEPT !.conflicts = @ + 1]
    ELSE [stats EXCEPT !.added = @ + 1]

ApplyDiffAddStats(stats, result) ==
    IF result = "True" THEN [stats EXCEPT !.added = @ + 1]
    ELSE IF result = "False" THEN [stats EXCEPT !.conflicts = @ + 1]
    ELSE [stats EXCEPT !.conflicts = @ + 1]

\* the delete loop: a False return is logged and counted nowhere
ApplyDiffRemoveStats(stats, result) ==
    IF result = "True" THEN [stats EXCEPT !.removed = @ + 1]
    ELSE IF result = "False" THEN stats
    ELSE [stats EXCEPT !.conflicts = @ + 1]

\* stats["a_records"], stats["cname_records"]: the sizes of the source
ApplyDiffCounts(stats, source_records) ==
    [stats EXCEPT !.a_records = Cardinality(source_records.A),
                  !.cname_records = Cardinality(source_records.CNAME)]

\* _apply_diff(source_records, target_server) called on its own
ApplyDiffCall(p, t) ==
    /\ loc[p].pc \in {"idle", "done"}
    /\ nops < MaxOps
    /\ nops' = nops + 1
    /\ calls' = <<>>
    /\ loc' = [loc EXCEPT ![p] =
                 [InitLoc EXCEPT !.op = "apply_diff", !.pc = "get_records",
                                 !.source_records = live[Hub],
                                 !.target = t,
                                 !.live0 = live[t],
                                 !.after_clean = CleanRun(loc[p], t, live[Hub])]]
    /\ UNCHANGED <<rtVars, envVars, dbVars, live, enabled, notifications>>

\* target_records = target_server.get_records(), then the first record type
ApplyDiffGetRecords(p) ==
    LET l == loc[p] IN
    /\ l.pc = "get_records"
    /\ l.op \in ApplyDiffOps
    /\ \E ok \in CallOutcomes(l) :
         /\ calls' = Append(calls, Call(l.target, "get_records", "-", <<>>,
                                        IF ok THEN "True" ELSE "raise"))
         /\ loc' = [loc EXCEPT ![p] =
                      IF ok
                      THEN EnterType([l EXCEPT !.pc = "apply",
                                               !.stats = ZeroStats,
                                               !.target_records = live[l.target]],
                                     "A")
                      ELSE ApplyDiffRaise(l, "get_records failed")]
    /\ UNCHANGED <<rtVars, envVars, dbVars, live, enabled, notifications, nops>>

\* one turn of "for record_str in to_add"
ApplyDiffAdd(p) ==
    LET l == loc[p] IN
    /\ l.pc = "apply"
    /\ l.op \in ApplyDiffOps
    /\ \E record_str \in AddsLeft(l) :
         LET record == from_string(l.record_type, record_str) IN
         IF record = ValueError
         THEN /\ loc' = [loc EXCEPT ![p] = ApplyDiffRaise(l, "ValueError")]
              /\ UNCHANGED <<live, calls>>
         ELSE \E result \in RecordOutcomes(l) :
                /\ live' = IF result = "True"
                           THEN ServerAdd(live, l.target, record)
                           ELSE live
                /\ calls' = Append(calls, Call(l.target, "add_record",
                                               record.type, to_string(record),
                                               result))
                /\ loc' = [loc EXCEPT ![p] =
                             IF RecordCallCaught(result)
                             THEN [l EXCEPT !.it_add = @ \cup {record_str},
                                            !.stats = ApplyDiffAddStats(@, result)]
                             ELSE ApplyDiffRaise(l, "add_record failed")]
    /\ UNCHANGED <<rtVars, envVars, dbVars, enabled, notifications, nops>>

\* one turn of "for record_str in to_remove", once to_add is through
ApplyDiffRemove(p) ==
    LET l == loc[p] IN
    /\ l.pc = "apply"
    /\ l.op \in ApplyDiffOps
    /\ AddsLeft(l) = {}
    /\ \E record_str \in RemovesLeft(l) :
         LET record == from_string(l.record_type, record_str) IN
         IF record = ValueError
         THEN /\ loc' = [loc EXCEPT ![p] = ApplyDiffRaise(l, "ValueError")]
              /\ UNCHANGED <<live, calls>>
         ELSE \E result \in RecordOutcomes(l) :
                /\ live' = IF result = "True"
                           THEN ServerDelete(live, l.target, record)
                           ELSE live
                /\ calls' = Append(calls, Call(l.target, "delete_record",
                                               record.type, to_string(record),
                                               result))
                /\ loc' = [loc EXCEPT ![p] =
                             IF RecordCallCaught(result)
                             THEN [l EXCEPT !.it_remove = @ \cup {record_str},
                                            !.stats = ApplyDiffRemoveStats(@, result)]
                             ELSE ApplyDiffRaise(l, "delete_record failed")]
    /\ UNCHANGED <<rtVars, envVars, dbVars, enabled, notifications, nops>>

\* both loops of record type A are through: on to CNAME
ApplyDiffNextType(p) ==
    LET l == loc[p] IN
    /\ l.pc = "apply"
    /\ l.op \in ApplyDiffOps
    /\ AddsLeft(l) = {}
    /\ RemovesLeft(l) = {}
    /\ l.record_type = "A"
    /\ loc' = [loc EXCEPT ![p] = EnterType(l, "CNAME")]
    /\ UNCHANGED <<rtVars, envVars, dbVars, live, enabled, notifications, calls, nops>>

\* both record types are through: the post-sync counts, and return stats
ApplyDiffReturn(p) ==
    LET l == loc[p] IN
    /\ l.pc = "apply"
    /\ l.op \in ApplyDiffOps
    /\ AddsLeft(l) = {}
    /\ RemovesLeft(l) = {}
    /\ l.record_type = "CNAME"
    /\ loc' = [loc EXCEPT ![p] =
                 [l EXCEPT !.stats = ApplyDiffCounts(@, l.source_records),
                           !.pc = IF l.op = "apply_diff" THEN "done"
                                  ELSE "save_spoke",
                           !.ret_kind = IF l.op = "apply_diff" THEN "value"
                                        ELSE @]]
    /\ UNCHANGED <<rtVars, envVars, dbVars, live, enabled, notifications, calls, nops>>

(***************************************************************************)
(* DNSServer.sync_records                                                  *)
(***************************************************************************)
\* "if dry_run: ... continue", with the continue forgotten
DryRunSkips_never(dry_run) == FALSE

\* "if dry_run: ... continue": a dry run leaves the two loops out
DryRunSkips(dry_run) == dry_run

\* stats['added'] += len(to_add); stats['removed'] += len(to_remove)
DryRunStats(stats, to_add, to_remove) ==
    [stats EXCEPT !.added = @ + Cardinality(to_add),
                  !.removed = @ + Cardinality(to_remove)]

\* the head of the loop over the record types, and the dry-run tally
SyncRecordsEnter(l, record_type) ==
    LET e == EnterType(l, record_type) IN
    IF e.dry_run
    THEN [e EXCEPT !.stats = DryRunStats(@, e.to_add, e.to_remove)]
    ELSE e

\* the add loop: a False return is counted nowhere
SyncRecordsAddStats(stats, result) ==
    IF result = "True" THEN [stats EXCEPT !.added = @ + 1]
    ELSE IF result = "False" THEN stats
    ELSE [stats EXCEPT !.conflicts = @ + 1]

\* the remove loop: a False return is counted nowhere
SyncRecordsRemoveStats(stats, result) ==
    IF result = "True" THEN [stats EXCEPT !.removed = @ + 1]
    ELSE IF result = "False" THEN stats
    ELSE [stats EXCEPT !.conflicts = @ + 1]

\* hub.sync_records(target_server, dry_run)
SyncRecordsCall(p, t, dry_run) ==
    /\ loc[p].pc \in {"idle", "done"}
    /\ nops < MaxOps
    /\ nops' = nops + 1
    /\ calls' = <<>>
    /\ loc' = [loc EXCEPT ![p] =
                 [InitLoc EXCEPT !.op = "sync_records", !.pc = "sr_source",
                                 !.target = t,
                                 !.dry_run = dry_run,
                                 !.live0 = live[t],
                                 !.after_clean = CleanRun(loc[p], t, live[Hub])]]
    /\ UNCHANGED <<rtVars, envVars, dbVars, live, enabled, notifications>>

\* source_records = self.get_records()
SyncRecordsGetSource(p) ==
    LET l == loc[p] IN
    /\ l.pc = "sr_source"
    /\ \E ok \in BOOLEAN :
         /\ calls' = Append(calls, Call(Hub, "get_records", "-", <<>>,
                                        IF ok THEN "True" ELSE "raise"))
         /\ loc' = [loc EXCEPT ![p] =
                      IF ok
                      THEN [l EXCEPT !.pc = "sr_target",
                                     !.source_records = live[Hub]]
                      ELSE [l EXCEPT !.pc = "done", !.ret_kind = "raised"]]
    /\ UNCHANGED <<rtVars, envVars, dbVars, live, enabled, notifications, nops>>

\* target_records = target_server.get_records(), then the first record type
SyncRecordsGetTarget(p) ==
    LET l == loc[p] IN
    /\ l.pc = "sr_target"
    /\ \E ok \in BOOLEAN :
         /\ calls' = Append(calls, Call(l.target, "get_records", "-", <<>>,
                                        IF ok THEN "True" ELSE "raise"))
         /\ loc' = [loc EXCEPT ![p] =
                      IF ok
                      THEN SyncRecordsEnter(
                               [l EXCEPT !.pc = "sr_apply",
                                         !.target_records = live[l.target]],
                               "A")
                      ELSE [l EXCEPT !.pc = "done", !.ret_kind = "raised"]]
    /\ UNCHANGED <<rtVars, envVars, dbVars, live, enabled, notifications, nops>>

\* one turn of "for record_str in to_add"
SyncRecordsAdd(p) ==
    LET l == loc[p] IN
    /\ l.pc = "sr_apply"
    /\ ~DryRunSkips(l.dry_run)
    /\ \E record_str \in AddsLeft(l) :
         LET record == from_string(l.record_type, record_str) IN
         IF record = ValueError
         THEN /\ loc' = [loc EXCEPT ![p] =
                           [l EXCEPT !.pc = "done", !.ret_kind = "raised"]]
              /\ UNCHANGED <<live, calls>>
         ELSE \E result \in Outcomes :
                /\ live' = IF result = "True"
                           THEN ServerAdd(live, l.target, record)
                           ELSE live
                /\ calls' = Append(calls, Call(l.target, "add_record",
                                               record.type, to_string(record),
                                               result))
                /\ loc' = [loc EXCEPT ![p] =
                             [l EXCEPT !.it_add = @ \cup {record_str},
                                       !.stats = SyncRecordsAddStats(@, result)]]
    /\ UNCHANGED <<rtVars, envVars, dbVars, enabled, notifications, nops>>

\* one turn of "for record_str in to_remove", once to_add is through
SyncRecordsRemove(p) ==
    LET l == loc[p] IN
    /\ l.pc = "sr_apply"
    /\ ~DryRunSkips(l.dry_run)
    /\ AddsLeft(l) = {}
    /\ \E record_str \in RemovesLeft(l) :
         LET record == from_string(l.record_type, record_str) IN
         IF record = ValueError
         THEN /\ loc' = [loc EXCEPT ![p] =
                           [l EXCEPT !.pc = "done", !.ret_kind = "raised"]]
              /\ UNCHANGED <<live, calls>>
         ELSE \E result \in Outcomes :
                /\ live' = IF result = "True"
                           THEN ServerDelete(live, l.target, record)
                           ELSE live
                /\ calls' = Append(calls, Call(l.target, "delete_record",
                                               record.type, to_string(record),
                                               result))
                /\ loc' = [loc EXCEPT ![p] =
                             [l EXCEPT !.it_remove = @ \cup {record_str},
                                       !.stats = SyncRecordsRemoveStats(@, result)]]
    /\ UNCHANGED <<rtVars, envVars, dbVars, enabled, notifications, nops>>

\* record type A is through (or skipped by the dry run): on to CNAME
SyncRecordsNextType(p) ==
    LET l == loc[p] IN
    /\ l.pc = "sr_apply"
    /\ DryRunSkips(l.dry_run) \/ (AddsLeft(l) = {} /\ RemovesLeft(l) = {})
    /\ l.record_type = "A"
    /\ loc' = [loc EXCEPT ![p] = SyncRecordsEnter(l, "CNAME")]
    /\ UNCHANGED <<rtVars, envVars, dbVars, live, enabled, notifications, calls, nops>>

\* both record types are through: return stats
SyncRecordsReturn(p) ==
    LET l == loc[p] IN
    /\ l.pc = "sr_apply"
    /\ DryRunSkips(l.dry_run) \/ (AddsLeft(l) = {} /\ RemovesLeft(l) = {})
    /\ l.record_type = "CNAME"
    /\ loc' = [loc EXCEPT ![p] = [l EXCEPT !.pc = "done", !.ret_kind = "value"]]
    /\ UNCHANGED <<rtVars, envVars, dbVars, live, enabled, notifications, calls, nops>>

(***************************************************************************)
(* The engine on its own: a hub snapshot S, a spoke live set T, and runs   *)
(* of the two implementations one after the other                          *)
(***************************************************************************)
EngineTargets == {"s1"}

InitEngine ==
    /\ InitRt
    /\ InitEnv
    /\ InitStore
    /\ InitRun
    /\ \E S \in RecordSets, T \in RecordSets :
         live = [s \in Servers |->
                   IF s = Hub THEN S
                   ELSE IF s \in EngineTargets THEN T
                   ELSE EmptyRecords]

NextEngine ==
    \E p \in SeqWorkers :
       \/ \E t \in EngineTargets : ApplyDiffCall(p, t)
       \/ ApplyDiffGetRecords(p)
       \/ ApplyDiffAdd(p)
       \/ ApplyDiffRemove(p)
       \/ ApplyDiffNextType(p)
       \/ ApplyDiffReturn(p)
       \/ \E t \in EngineTargets, dry_run \in BOOLEAN :
             SyncRecordsCall(p, t, dry_run)
       \/ SyncRecordsGetSource(p)
       \/ SyncRecordsGetTarget(p)
       \/ SyncRecordsAdd(p)
       \/ SyncRecordsRemove(p)
       \/ SyncRecordsNextType(p)
       \/ SyncRecordsReturn(p)

SpecEngine == InitEngine /\ [][NextEngine]_vars

(***************************************************************************)
(* Properties of the engine                                                *)
(***************************************************************************)
\* number of calls of a method on a server whose result is one of results
CountCalls(server, method, results) ==
    Cardinality({i \in 1..Len(calls) :
                    /\ calls[i].server = server
                    /\ calls[i].method = method
                    /\ calls[i].result \in results})

\* number of calls of a method on a server for one record
CountRecordCalls(server, method, record_type, record_str) ==
    Cardinality({i \in 1..Len(calls) :
                    /\ calls[i].server = server
                    /\ calls[i].method = method
                    /\ calls[i].record_type = record_type
                    /\ calls[i].record_str = record_str})

\* |S - T| summed over the two record types
SizeMissing(S, T) == Cardinality(S.A \ T.A) + Cardinality(S.CNAME \ T.CNAME)

\* a run of one of the two implementations has returned its stats
EngineReturned(l) ==
    /\ l.op \in {"apply_diff", "sync_records"}
    /\ l.pc = "done"
    /\ l.ret_kind = "value"

\* the engine is between reading the target and returning
EngineApplying(l) ==
    /\ l.op \in {"apply_diff", "sync_records"}
    /\ l.pc \in {"apply", "sr_apply"}

AllCallsSucceeded == \A i \in 1..Len(calls) : calls[i].result = "True"

\* C1: per record type to_add = S - T and to_remove = T - S are disjoint;
\* when every adapter call succeeds, a non-dry-run run of _apply_diff or of
\* sync_records leaves the target holding exactly S and reports
\* added = |S - T| and removed = |T - S|, summed over A and CNAME.
C1_DiffClosure ==
    \A p \in Workers :
       LET l == loc[p]
           S == live[Hub]
           T == l.live0
       IN  /\ EngineApplying(l) =>
                /\ l.to_add = S[l.record_type] \ T[l.record_type]
                /\ l.to_remove = T[l.record_type] \ S[l.record_type]
                /\ l.to_add \cap l.to_remove = {}
           /\ (EngineReturned(l) /\ ~l.dry_run /\ AllCallsSucceeded) =>
                /\ live[l.target] = S
                /\ l.stats.added = SizeMissing(S, T)
                /\ l.stats.removed = SizeMissing(T, S)

\* _apply_diff has returned after adding two records and removing two, all
\* calls succeeding, and the target holds the hub's records
C1_Witness ==
    \E p \in Workers :
       /\ EngineReturned(loc[p])
       /\ loc[p].op = "apply_diff"
       /\ AllCallsSucceeded
       /\ loc[p].stats.added = 2
       /\ loc[p].stats.removed = 2
       /\ live[loc[p].target] = live[Hub]
       /\ loc[p].live0 # live[Hub]

\* C2 (as claimed, for both implementations): in a non-dry-run run every
\* add_record call that returns False counts in conflicts and not in added;
\* stated on the runs whose delete_record calls all returned True, where
\* conflicts is the number of add calls that did not return True and
\* added + conflicts = |to_add|.
C2_AddFalseIsConflict ==
    \A p \in Workers :
       LET l == loc[p]
           t == l.target
       IN  (/\ EngineReturned(l)
            /\ ~l.dry_run
            /\ CountCalls(t, "delete_record", {"False", "raise"}) = 0) =>
               /\ l.stats.added = CountCalls(t, "add_record", {"True"})
               /\ l.stats.conflicts =
                     CountCalls(t, "add_record", {"False", "raise"})
               /\ l.stats.added + l.stats.conflicts =
                     SizeMissing(live[Hub], l.live0)

\* the same statement for sync._apply_diff alone
C2_ApplyDiffAddFalseIsConflict ==
    \A p \in Workers :
       LET l == loc[p]
           t == l.target
       IN  (/\ EngineReturned(l)
            /\ l.op = "apply_diff"
            /\ CountCalls(t, "delete_record", {"False", "raise"}) = 0) =>
               /\ l.stats.added = CountCalls(t, "add_record", {"True"})
               /\ l.stats.conflicts =
                     CountCalls(t, "add_record", {"False", "raise"})
               /\ l.stats.added + l.stats.conflicts =
                     SizeMissing(live[Hub], l.live0)

\* C3 (as claimed): after _apply_diff a delete_record call that returned
\* False is counted in conflicts like one that raised, never in removed, so
\* removed + (delete conflicts) = |to_remove| and
\* added + removed + conflicts = |to_add| + |to_remove|.
C3_DeleteFalseIsConflict ==
    \A p \in Workers :
       LET l == loc[p]
           t == l.target
       IN  (EngineReturned(l) /\ l.op = "apply_diff") =>
               /\ l.stats.removed = CountCalls(t, "delete_record", {"True"})
               /\ l.stats.conflicts =
                     CountCalls(t, "add_record", {"False", "raise"})
                     + CountCalls(t, "delete_record", {"False", "raise"})
               /\ l.stats.added + l.stats.removed + l.stats.conflicts =
                     SizeMissing(live[Hub], l.live0)
                     + SizeMissing(l.live0, live[Hub])

\* what _apply_diff does count: removed is the number of deletes that
\* returned True, conflicts the number of calls that returned False on add
\* or raised on add or delete
C3_ApplyDiffTally ==
    \A p \in Workers :
       LET l == loc[p]
           t == l.target
       IN  (EngineReturned(l) /\ l.op = "apply_diff") =>
               /\ l.stats.added = CountCalls(t, "add_record", {"True"})
               /\ l.stats.removed = CountCalls(t, "delete_record", {"True"})
               /\ l.stats.conflicts =
                     CountCalls(t, "add_record", {"False", "raise"})
                     + CountCalls(t, "delete_record", {"raise"})

\* C4: in _apply_diff, whatever each call does (True, False, raise), every
\* record of to_add gets exactly one add_record call and every record of
\* to_remove exactly one delete_record call, for A and for CNAME, and the
\* function returns its stats: it raises only when get_records itself raised.
C4_EveryRecordAttemptedOnce ==
    \A p \in Workers :
       LET l == loc[p]
           t == l.target
           S == live[Hub]
           T == l.live0
       IN  (l.op = "apply_diff") =>
             /\ (l.pc = "done" /\ l.ret_kind = "raised") =>
                   CountCalls(t, "get_records", {"raise"}) = 1
             /\ (l.pc = "done" /\ l.ret_kind = "value") =>
                   /\ \A ty \in {"A", "CNAME"} :
                        /\ \A r \in S[ty] \ T[ty] :
                              CountRecordCalls(t, "add_record", ty, r) = 1
                        /\ \A r \in T[ty] \ S[ty] :
                              CountRecordCalls(t, "delete_record", ty, r) = 1
                   /\ Cardinality(MutatingCalls) =
                         SizeMissing(S, T) + SizeMissing(T, S)

\* _apply_diff has returned its stats after four calls of which one raised
\* and one returned False
C4_Witness ==
    \E p \in Workers :
       /\ EngineReturned(loc[p])
       /\ loc[p].op = "apply_diff"
       /\ Cardinality(MutatingCalls) = 4
       /\ \E i, j \in MutatingCalls :
             /\ i < j
             /\ calls[i].result = "raise"
             /\ calls[j].result # "raise"
       /\ \E i \in MutatingCalls : calls[i].result = "False"

\* C5: sync_records(target, dry_run=True) never calls add_record or
\* delete_record, leaves the target as it was, and returns
\* added = |source - target|, removed = |target - source| summed over A and
\* CNAME, with conflicts = 0.
C5_DryRunNoMutation ==
    \A p \in Workers :
       LET l == loc[p] IN
       (l.op = "sync_records" /\ l.dry_run) =>
          /\ MutatingCalls = {}
          /\ live[l.target] = l.live0
          /\ (l.pc = "done" /\ l.ret_kind = "value") =>
                /\ l.stats.added = SizeMissing(live[Hub], l.live0)
                /\ l.stats.removed = SizeMissing(l.live0, live[Hub])
                /\ l.stats.conflicts = 0

\* a dry run has returned with records to add and records to remove
C5_Witness ==
    \E p \in Workers :
       /\ EngineReturned(loc[p])
       /\ loc[p].op = "sync_records"
       /\ loc[p].dry_run
       /\ loc[p].stats.added = 2
       /\ loc[p].stats.removed = 1
       /\ MutatingCalls = {}

\* C6: when the target already holds the source's records for both types,
\* a run makes no add_record/delete_record call and reports added = 0 and
\* removed = 0; a run right after a run in which every call succeeded is
\* such a run, and changes nothing.
C6_Idempotent ==
    \A p \in Workers :
       LET l == loc[p] IN
       (l.op \in {"apply_diff", "sync_records"}) =>
          /\ l.after_clean => l.live0 = live[Hub]
          /\ (l.live0 = live[Hub]) =>
                /\ MutatingCalls = {}
                /\ live[l.target] = l.live0
                /\ EngineReturned(l) =>
                      (l.stats.added = 0 /\ l.stats.removed = 0)

\* a second run, right after a run that brought a differing target in line
\* with every call succeeding, has returned without a call
C6_Witness ==
    \E p \in Workers :
       /\ EngineReturned(loc[p])
       /\ ~loc[p].dry_run
       /\ loc[p].after_clean
       /\ loc[p].live0 # EmptyRecords
       /\ MutatingCalls = {}
       /\ loc[p].stats.added = 0
       /\ loc[p].stats.removed = 0

(***************************************************************************)
(* The store (db.py)                                                       *)
(***************************************************************************)
\* the rows save_hub_records / save_spoke_records insert for a dict
Rows(records) ==
    {<<"A", r>> : r \in records.A} \cup {<<"CNAME", r>> : r \in records.CNAME}

\* get_cached_hub_records: None when the table holds no row of the hub,
\* else the rows grouped by record type (cache_meta is not read)
get_cached_hub_records(rows) ==
    IF rows = {} THEN NoneRecords
    ELSE [is_none |-> FALSE,
          A |-> {x[2] : x \in {y \in rows : y[1] = "A"}},
          CNAME |-> {x[2] : x \in {y \in rows : y[1] = "CNAME"}}]

\* get_spoke_records: None when the table holds no row of the spoke, else
\* the rows grouped by record type
get_spoke_records(rows) ==
    IF rows = {} THEN NoneRecords
    ELSE [is_none |-> FALSE,
          A |-> {x[2] : x \in {y \in rows : y[1] = "A"}},
          CNAME |-> {x[2] : x \in {y \in rows : y[1] = "CNAME"}}]

\* status = "error" if error else "success": None and "" are both falsy
Status(error) == IF error \in {None, ""} THEN "success" ELSE "error"

\* the row record_sync inserts
SyncRun(server_name, role, stats, error, now) ==
    [server_name |-> server_name, role |-> role, started_at |-> now,
     finished_at |-> now, added |-> stats.added, removed |-> stats.removed,
     conflicts |-> stats.conflicts, a_records |-> stats.a_records,
     cname_records |-> stats.cname_records, error |-> error,
     status |-> Status(error)]

\* a store write either commits or raises and leaves the tables as they were
DbResults == IF Cardinality(Faults) < MaxFaults THEN {"True", "raise"}
             ELSE {"True"}

DbCall(method, result) == Call("db", method, "-", <<>>, result)

(***************************************************************************)
(* notifications.py                                                        *)
(***************************************************************************)
Notification(kind, server_name, error) ==
    [kind |-> kind, server_name |-> server_name, error |-> error]

(***************************************************************************)
(* Messages                                                                *)
(***************************************************************************)
\* str(e) of the exceptions an adapter raises
ExcMessages == {"timeout", ""}

\* the source separates the two halves of this message with an em dash
MsgNoCache == "No authoritative cache available - skipping spoke sync"
MsgHubUnreachable == "Hub unreachable and no cached records"
MsgDbError == "database is locked"

(***************************************************************************)
(* sync.refresh_hub_cache                                                  *)
(***************************************************************************)
\* the operations that run refresh_hub_cache
RefreshOps == {"refresh", "perform_sync"}

\* the ghost copies taken when a top-level operation starts
AtCall(l) ==
    [l EXCEPT !.live_at_call = live,
              !.rows_at_call = authoritative_records,
              !.meta_at_call = cache_meta,
              !.runs_at_call = Len(sync_runs),
              !.notes_at_call = Len(notifications),
              !.spoke_rows_at_call = spoke_records]

\* refresh_hub_cache(db_path, hub_cfg, secrets) called on its own
RefreshCall(p) ==
    /\ loc[p].pc \in {"idle", "done"}
    /\ nops < MaxOps
    /\ nops' = nops + 1
    /\ calls' = <<>>
    /\ loc' = [loc EXCEPT ![p] =
                 AtCall([InitLoc EXCEPT !.op = "refresh", !.pc = "rh_create"])]
    /\ UNCHANGED <<rtVars, envVars, dbVars, live, enabled, notifications>>

\* hub_server = create_server(...)
RefreshCreate(p) ==
    LET l == loc[p] IN
    /\ l.pc = "rh_create"
    /\ l.op \in RefreshOps
    /\ \/ /\ calls' = Append(calls, Call(Hub, "create", "-", <<>>, "True"))
          /\ loc' = [loc EXCEPT ![p] =
                       [l EXCEPT !.pc = "rh_connect", !.hub_server = TRUE]]
       \/ \E msg \in ExcMessages :
            /\ MayFail(l)
            /\ calls' = Append(calls, Call(Hub, "create", "-", <<>>, "raise"))
            /\ loc' = [loc EXCEPT ![p] =
                         [l EXCEPT !.pc = "rh_except", !.err = msg]]
    /\ UNCHANGED <<rtVars, envVars, dbVars, live, enabled, notifications, nops>>

\* hub_server.connect()
RefreshConnect(p) ==
    LET l == loc[p] IN
    /\ l.pc = "rh_connect"
    /\ \/ /\ calls' = Append(calls, Call(Hub, "connect", "-", <<>>, "True"))
          /\ loc' = [loc EXCEPT ![p] = [l EXCEPT !.pc = "rh_get"]]
       \/ \E msg \in ExcMessages :
            /\ MayFail(l)
            /\ calls' = Append(calls, Call(Hub, "connect", "-", <<>>, "raise"))
            /\ loc' = [loc EXCEPT ![p] =
                         [l EXCEPT !.pc = "rh_except", !.err = msg]]
    /\ UNCHANGED <<rtVars, envVars, dbVars, live, enabled, notifications, nops>>

\* hub_records = hub_server.get_records()
RefreshGetRecords(p) ==
    LET l == loc[p] IN
    /\ l.pc = "rh_get"
    /\ \/ /\ calls' = Append(calls, Call(Hub, "get_records", "-", <<>>, "True"))
          /\ loc' = [loc EXCEPT ![p] =
                       [l EXCEPT !.pc = "rh_save",
                                 !.hub_records = Some(live[Hub])]]
       \/ \E msg \in ExcMessages :
            /\ MayFail(l)
            /\ calls' = Append(calls, Call(Hub, "get_records", "-", <<>>, "raise"))
            /\ loc' = [loc EXCEPT ![p] =
                         [l EXCEPT !.pc = "rh_except", !.err = msg]]
    /\ UNCHANGED <<rtVars, envVars, dbVars, live, enabled, notifications, nops>>

\* db.save_hub_records(db_path, hub_name, hub_records); return hub_records.
\* The delete, the inserts and the cache_meta row are one transaction: it
\* commits as a whole or, when a statement raises, not at all.
RefreshSave(p) ==
    LET l == loc[p] IN
    /\ l.pc = "rh_save"
    /\ \E result \in DbResults :
         /\ calls' = Append(calls, DbCall("save_hub_records", result))
         /\ IF result = "True"
            THEN \E now \in {clock, clock + 1} :
                   /\ authoritative_records' = Rows(AsRecords(l.hub_records))
                   /\ cache_meta' = now
                   /\ clock' = now
                   /\ loc' = [loc EXCEPT ![p] = [l EXCEPT !.pc = "rh_finally"]]
            ELSE /\ loc' = [loc EXCEPT ![p] =
                              [l EXCEPT !.pc = "rh_except", !.err = MsgDbError]]
                 /\ UNCHANGED <<authoritative_records, cache_meta, clock>>
    /\ UNCHANGED <<rtVars, envVars, spoke_records, sync_runs, live, enabled,
                   notifications, nops>>

\* except Exception as e: notify, then return the cached records
RefreshExcept(p) ==
    LET l == loc[p] IN
    /\ l.pc = "rh_except"
    /\ notifications' = Append(notifications,
                               Notification("hub_unreachable", Hub, l.err))
    /\ loc' = [loc EXCEPT ![p] =
                 [l EXCEPT !.pc = "rh_finally",
                           !.hub_records =
                              get_cached_hub_records(authoritative_records)]]
    /\ UNCHANGED <<rtVars, envVars, dbVars, live, enabled, calls, nops>>

\* the cache is unavailable: hub_records is None
CacheUnavailable_never(hub_records) == FALSE

CacheUnavailable(hub_records) == hub_records.is_none

\* finally: disconnect the hub adapter if it was created; the value goes
\* back to the caller. perform_sync goes on to the spoke, or to its
\* "Hub unreachable and no cached records" branch.
RefreshFinally(p) ==
    LET l == loc[p] IN
    /\ l.pc = "rh_finally"
    /\ calls' = IF l.hub_server
                THEN Append(calls, Call(Hub, "disconnect", "-", <<>>, "True"))
                ELSE calls
    /\ loc' = [loc EXCEPT ![p] =
                 IF l.op = "refresh"
                 THEN [l EXCEPT !.pc = "done",
                                !.ret_kind = IF l.hub_records.is_none
                                             THEN "None" ELSE "value"]
                 ELSE IF CacheUnavailable(l.hub_records)
                 THEN [l EXCEPT !.pc = "ps_nocache"]
                 ELSE [l EXCEPT !.pc = "create"]]
    /\ UNCHANGED <<rtVars, envVars, dbVars, live, enabled, notifications, nops>>

(***************************************************************************)
(* One spoke: the try / except / finally of sync_all_enabled_spokes and of *)
(* perform_sync                                                            *)
(***************************************************************************)
\* "if not spoke_cfg.get('enabled', True)": a disabled spoke is skipped
SkipsDisabled_never(s) == FALSE

SkipsDisabled(s) == s \in Spokes /\ ~enabled[s]

\* the operations that sync a spoke against hub_records
SpokeOps == {"sync_all", "perform_sync"}

\* results[spoke_name] = stats, or the value perform_sync returns
SetResult(l, stats) ==
    IF l.op = "sync_all"
    THEN [l EXCEPT !.results = [s \in DOMAIN l.results \cup {l.spoke} |->
                                  IF s = l.spoke THEN stats ELSE l.results[s]]]
    ELSE [l EXCEPT !.ret_stats = stats]

\* spoke_server = create_server(...)
SpokeCreate(p) ==
    LET l == loc[p] IN
    /\ l.pc = "create"
    /\ l.op \in SpokeOps
    /\ \/ /\ calls' = Append(calls, Call(l.spoke, "create", "-", <<>>, "True"))
          /\ loc' = [loc EXCEPT ![p] =
                       [l EXCEPT !.pc = "connect", !.spoke_server = TRUE]]
       \/ \E msg \in ExcMessages :
            /\ MayFail(l)
            /\ calls' = Append(calls, Call(l.spoke, "create", "-", <<>>, "raise"))
            /\ loc' = [loc EXCEPT ![p] = [l EXCEPT !.pc = "except", !.err = msg]]
    /\ UNCHANGED <<rtVars, envVars, dbVars, live, enabled, notifications, nops>>

\* spoke_server.connect(), then into _apply_diff(hub_records, spoke_server)
SpokeConnect(p) ==
    LET l == loc[p] IN
    /\ l.pc = "connect"
    /\ l.op \in SpokeOps
    /\ \/ /\ calls' = Append(calls, Call(l.spoke, "connect", "-", <<>>, "True"))
          /\ loc' = [loc EXCEPT ![p] =
                       [l EXCEPT !.pc = "get_records",
                                 !.target = l.spoke,
                                 !.source_records = AsRecords(l.hub_records),
                                 !.live0 = live[l.spoke]]]
       \/ \E msg \in ExcMessages :
            /\ MayFail(l)
            /\ calls' = Append(calls, Call(l.spoke, "connect", "-", <<>>, "raise"))
            /\ loc' = [loc EXCEPT ![p] = [l EXCEPT !.pc = "except", !.err = msg]]
    /\ UNCHANGED <<rtVars, envVars, dbVars, live, enabled, notifications, nops>>

\* db.save_spoke_records(db_path, spoke_name, hub_records)
SpokeSave(p) ==
    LET l == loc[p] IN
    /\ l.pc = "save_spoke"
    /\ l.op \in SpokeOps
    /\ \E result \in DbResults :
         /\ calls' = Append(calls, DbCall("save_spoke_records", result))
         /\ IF result = "True"
            THEN /\ spoke_records' = [spoke_records EXCEPT ![l.spoke] =
                                        Rows(AsRecords(l.hub_records))]
                 /\ loc' = [loc EXCEPT ![p] = [l EXCEPT !.pc = "record"]]
            ELSE /\ loc' = [loc EXCEPT ![p] =
                              [l EXCEPT !.pc = "except", !.err = MsgDbError]]
                 /\ UNCHANGED spoke_records
    /\ UNCHANGED <<rtVars, envVars, authoritative_records, cache_meta, sync_runs, clock,
                   live, enabled, notifications, nops>>

\* db.record_sync(..., "spoke", stats); results[spoke_name] = stats
SpokeRecord(p) ==
    LET l == loc[p] IN
    /\ l.pc = "record"
    /\ l.op \in SpokeOps
    /\ \E result \in DbResults :
         /\ calls' = Append(calls, DbCall("record_sync", result))
         /\ IF result = "True"
            THEN /\ sync_runs' = Append(sync_runs,
                                        SyncRun(l.spoke, "spoke", l.stats, None,
                                                clock))
                 /\ loc' = [loc EXCEPT ![p] =
                              [SetResult(l, l.stats) EXCEPT !.pc = "finally"]]
            ELSE /\ loc' = [loc EXCEPT ![p] =
                              [l EXCEPT !.pc = "except", !.err = MsgDbError]]
                 /\ UNCHANGED sync_runs
    /\ UNCHANGED <<rtVars, envVars, authoritative_records, cache_meta, spoke_records,
                   clock, live, enabled, notifications, nops>>

\* "except Exception as e" wraps the whole try body of a spoke
SpokeTryCatches_not(l) == FALSE

SpokeTryCatches(l) == TRUE

\* except Exception as e: the error row, the notification, the empty stats.
\* A record_sync that raises here leaves the handler through the finally.
SpokeExcept(p) ==
    LET l == loc[p] IN
    /\ l.pc = "except"
    /\ l.op \in SpokeOps
    /\ IF SpokeTryCatches(l)
       THEN \E result \in DbResults :
              /\ calls' = Append(calls, DbCall("record_sync", result))
              /\ IF result = "True"
                 THEN /\ sync_runs' = Append(sync_runs,
                                             SyncRun(l.spoke, "spoke", ZeroStats,
                                                     l.err, clock))
                      /\ notifications' = Append(notifications,
                                                 Notification("sync_failed",
                                                              l.spoke, l.err))
                      /\ loc' = [loc EXCEPT ![p] =
                                   [SetResult(l, ZeroStats) EXCEPT
                                      !.pc = "finally"]]
                 ELSE /\ loc' = [loc EXCEPT ![p] =
                                   [l EXCEPT !.pc = "finally", !.raising = TRUE]]
                      /\ UNCHANGED <<sync_runs, notifications>>
       ELSE /\ loc' = [loc EXCEPT ![p] =
                         [l EXCEPT !.pc = "finally", !.raising = TRUE]]
            /\ UNCHANGED <<sync_runs, notifications, calls>>
    /\ UNCHANGED <<rtVars, envVars, authoritative_records, cache_meta, spoke_records,
                   clock, live, enabled, nops>>

\* finally: disconnect the adapter if it was created; then the next spoke,
\* the return of perform_sync, or the exception on its way out
SpokeFinally(p) ==
    LET l == loc[p] IN
    /\ l.pc = "finally"
    /\ l.op \in SpokeOps
    /\ calls' = IF l.spoke_server
                THEN Append(calls, Call(l.spoke, "disconnect", "-", <<>>, "True"))
                ELSE calls
    /\ loc' = [loc EXCEPT ![p] =
                 IF l.raising
                 THEN [l EXCEPT !.pc = "done", !.ret_kind = "raised"]
                 ELSE IF l.op = "sync_all"
                 THEN [l EXCEPT !.pc = "sa_loop", !.spokes = Tail(@)]
                 ELSE [l EXCEPT !.pc = "done", !.ret_kind = "value"]]
    /\ UNCHANGED <<rtVars, envVars, dbVars, live, enabled, notifications, nops>>

(***************************************************************************)
(* sync.sync_all_enabled_spokes                                            *)
(***************************************************************************)
\* the orders the configured spokes can be listed in
SpokeOrders == {<<"s1", "s2">>, <<"s2", "s1">>}

\* hub_records = db.get_cached_hub_records(...); results = {}
SyncAllCall(p, order) ==
    /\ loc[p].pc \in {"idle", "done"}
    /\ nops < MaxOps
    /\ nops' = nops + 1
    /\ calls' = <<>>
    /\ loc' = [loc EXCEPT ![p] =
                 AtCall([InitLoc EXCEPT
                           !.op = "sync_all", !.pc = "sa_loop",
                           !.spokes = order,
                           !.hub_records =
                              get_cached_hub_records(authoritative_records)])]
    /\ UNCHANGED <<rtVars, envVars, dbVars, live, enabled, notifications>>

\* "if not spoke_cfg.get('enabled', True): continue"
SyncAllSkipDisabled(p) ==
    LET l == loc[p] IN
    /\ l.pc = "sa_loop"
    /\ l.spokes # <<>>
    /\ SkipsDisabled(Head(l.spokes))
    /\ loc' = [loc EXCEPT ![p] = [l EXCEPT !.spokes = Tail(@)]]
    /\ UNCHANGED <<rtVars, envVars, dbVars, live, enabled, notifications, calls, nops>>

\* "if hub_records is None": the error row and the empty stats, outside any
\* try: a record_sync that raises ends the whole call
SyncAllNoCache(p) ==
    LET l == loc[p]
        s == Head(l.spokes) IN
    /\ l.pc = "sa_loop"
    /\ l.spokes # <<>>
    /\ ~SkipsDisabled(s)
    /\ CacheUnavailable(l.hub_records)
    /\ \E result \in DbResults :
         /\ calls' = Append(calls, DbCall("record_sync", result))
         /\ IF result = "True"
            THEN /\ sync_runs' = Append(sync_runs,
                                        SyncRun(s, "spoke", ZeroStats,
                                                MsgNoCache, clock))
                 /\ loc' = [loc EXCEPT ![p] =
                              [SetResult([l EXCEPT !.spoke = s], ZeroStats)
                                 EXCEPT !.spokes = Tail(@)]]
            ELSE /\ loc' = [loc EXCEPT ![p] =
                              [l EXCEPT !.pc = "done", !.ret_kind = "raised"]]
                 /\ UNCHANGED sync_runs
    /\ UNCHANGED <<rtVars, envVars, authoritative_records, cache_meta, spoke_records,
                   clock, live, enabled, notifications, nops>>

\* spoke_server = None; try:
SyncAllBegin(p) ==
    LET l == loc[p]
        s == Head(l.spokes) IN
    /\ l.pc = "sa_loop"
    /\ l.spokes # <<>>
    /\ ~SkipsDisabled(s)
    /\ ~CacheUnavailable(l.hub_records)
    /\ loc' = [loc EXCEPT ![p] =
                 [l EXCEPT !.pc = "create", !.spoke = s, !.spoke_server = FALSE,
                           !.err = "", !.stats = ZeroStats]]
    /\ UNCHANGED <<rtVars, envVars, dbVars, live, enabled, notifications, calls, nops>>

\* return results
SyncAllReturn(p) ==
    LET l == loc[p] IN
    /\ l.pc = "sa_loop"
    /\ l.spokes = <<>>
    /\ loc' = [loc EXCEPT ![p] = [l EXCEPT !.pc = "done", !.ret_kind = "value"]]
    /\ UNCHANGED <<rtVars, envVars, dbVars, live, enabled, notifications, calls, nops>>

(***************************************************************************)
(* sync.perform_sync                                                       *)
(***************************************************************************)
\* "hub_records = refresh_hub_cache(...)" is the first thing perform_sync
\* does for an enabled spoke; without it, it would go straight to the spoke
PerformSyncStart_norefresh(s) == "create"

PerformSyncStart(s) == "rh_create"

\* perform_sync(db_path, hub_cfg, spoke_cfg, secrets): a disabled spoke
\* returns the empty stats at once, an enabled one refreshes the hub first
PerformSyncCall(p, s) ==
    /\ loc[p].pc \in {"idle", "done"}
    /\ nops < MaxOps
    /\ nops' = nops + 1
    /\ calls' = <<>>
    /\ loc' = [loc EXCEPT ![p] =
                 AtCall(IF SkipsDisabled(s)
                        THEN [InitLoc EXCEPT !.op = "perform_sync",
                                             !.pc = "done",
                                             !.spoke = s,
                                             !.ret_kind = "value",
                                             !.ret_stats = ZeroStats]
                        ELSE [InitLoc EXCEPT !.op = "perform_sync",
                                             !.pc = PerformSyncStart(s),
                                             !.spoke = s])]
    /\ UNCHANGED <<rtVars, envVars, dbVars, live, enabled, notifications>>

\* "if hub_records is None": the error row, outside any try, and the empty
\* stats
PerformSyncNoCache(p) ==
    LET l == loc[p] IN
    /\ l.pc = "ps_nocache"
    /\ \E result \in DbResults :
         /\ calls' = Append(calls, DbCall("record_sync", result))
         /\ IF result = "True"
            THEN /\ sync_runs' = Append(sync_runs,
                                        SyncRun(l.spoke, "spoke", ZeroStats,
                                                MsgHubUnreachable, clock))
                 /\ loc' = [loc EXCEPT ![p] =
                              [l EXCEPT !.pc = "done", !.ret_kind = "value",
                                        !.ret_stats = ZeroStats]]
            ELSE /\ loc' = [loc EXCEPT ![p] =
                              [l EXCEPT !.pc = "done", !.ret_kind = "raised"]]
                 /\ UNCHANGED sync_runs
    /\ UNCHANGED <<rtVars, envVars, authoritative_records, cache_meta, spoke_records,
                   clock, live, enabled, notifications, nops>>

(***************************************************************************)
(* The orchestrator: hub refreshes and spoke syncs, one after another      *)
(***************************************************************************)
\* the record sets of the hub, and of the spokes, when the service starts
HubSets == {EmptyRecords,
            [A |-> {<<"1", " ", "n">>}, CNAME |-> {}],
            [A |-> {<<"1", " ", "n">>}, CNAME |-> {<<"x", " ", "-", ">", " ", "n">>}]}

SpokeSets == {EmptyRecords, [A |-> {<<"2", " ", "p">>}, CNAME |-> {}]}

\* settings.yaml: every spoke enabled, or the second one switched off
EnabledSets == {[s \in Spokes |-> TRUE], [s \in Spokes |-> s = "s1"]}

Init ==
    /\ InitRt
    /\ InitEnv
    /\ InitStore
    /\ enabled \in EnabledSets
    /\ notifications = <<>>
    /\ loc = [w \in Workers |-> InitLoc]
    /\ calls = <<>>
    /\ nops = 0
    /\ \E S \in HubSets, T \in SpokeSets :
         live = [s \in Servers |-> IF s = Hub THEN S ELSE T]

Next ==
    \E p \in SeqWorkers :
       \/ RefreshCall(p)
       \/ RefreshCreate(p)
       \/ RefreshConnect(p)
       \/ RefreshGetRecords(p)
       \/ RefreshSave(p)
       \/ RefreshExcept(p)
       \/ RefreshFinally(p)
       \/ \E order \in SpokeOrders : SyncAllCall(p, order)
       \/ SyncAllSkipDisabled(p)
       \/ SyncAllNoCache(p)
       \/ SyncAllBegin(p)
       \/ SyncAllReturn(p)
       \/ \E s \in Spokes : PerformSyncCall(p, s)
       \/ PerformSyncNoCache(p)
       \/ SpokeCreate(p)
       \/ SpokeConnect(p)
       \/ ApplyDiffGetRecords(p)
       \/ ApplyDiffAdd(p)
       \/ ApplyDiffRemove(p)
       \/ ApplyDiffNextType(p)
       \/ ApplyDiffReturn(p)
       \/ SpokeSave(p)
       \/ SpokeRecord(p)
       \/ SpokeExcept(p)
       \/ SpokeFinally(p)

Spec == Init /\ [][Next]_vars

(***************************************************************************)
(* Properties of the orchestrator                                          *)
(***************************************************************************)
\* a store write of the current operation raised
DbRaised ==
    \E i \in 1..Len(calls) : calls[i].server = "db" /\ calls[i].result = "raise"

\* the adapter of a server raised at creation, connect or get_records
AdapterRaised(server) ==
    \E i \in 1..Len(calls) :
       /\ calls[i].server = server
       /\ calls[i].method \in {"create", "connect", "get_records"}
       /\ calls[i].result = "raise"

\* no call of the current operation went to the adapter of a spoke
NoSpokeCall == \A i \in 1..Len(calls) : calls[i].server \notin Spokes

\* the records of one type a server was told to add / delete, with result True
Applied(server, method, record_type) ==
    {calls[i].record_str : i \in
        {j \in 1..Len(calls) : /\ calls[j].server = server
                               /\ calls[j].method = method
                               /\ calls[j].record_type = record_type
                               /\ calls[j].result = "True"}}

\* what a sync of spoke s on its own, meeting the same call results, leaves
\* on the spoke and reports, from the cache H and the records T the spoke
\* held before
AloneLive(s, T) ==
    [A |-> (T.A \cup Applied(s, "add_record", "A"))
              \ Applied(s, "delete_record", "A"),
     CNAME |-> (T.CNAME \cup Applied(s, "add_record", "CNAME"))
                  \ Applied(s, "delete_record", "CNAME")]

AloneStats(s, H) ==
    [added |-> CountCalls(s, "add_record", {"True"}),
     removed |-> CountCalls(s, "delete_record", {"True"}),
     conflicts |-> CountCalls(s, "add_record", {"False", "raise"})
                   + CountCalls(s, "delete_record", {"raise"}),
     a_records |-> Cardinality(H.A),
     cname_records |-> Cardinality(H.CNAME)]

\* every record of the diff of spoke s got exactly one call, and no other
\* record got any
AloneCalls(s, H, T) ==
    \A rt \in {"A", "CNAME"} :
       /\ \A r \in H[rt] \cup T[rt] :
            /\ CountRecordCalls(s, "add_record", rt, r)
                 = IF r \in H[rt] \ T[rt] THEN 1 ELSE 0
            /\ CountRecordCalls(s, "delete_record", rt, r)
                 = IF r \in T[rt] \ H[rt] THEN 1 ELSE 0
       /\ \A i \in 1..Len(calls) :
            (calls[i].server = s /\ calls[i].record_type = rt) =>
               calls[i].record_str \in H[rt] \cup T[rt]

\* sync_all_enabled_spokes is over, and no store write of it raised
SyncAllOver(l) ==
    /\ l.op = "sync_all"
    /\ l.pc = "done"
    /\ ~DbRaised

\* C8: partial failure isolation. When sync_all_enabled_spokes runs against
\* an available cache (and the store takes every write), whichever spokes'
\* adapters raise at creation, connect or get_records, in either order of the
\* spokes: the call returns a map with an entry for exactly the enabled
\* spokes; a failing spoke has all-zero stats and is left untouched; every
\* other spoke is reconciled as a sync of it alone would, with its own stats.
C8_PartialFailureIsolation ==
    \A p \in SeqWorkers :
       LET l == loc[p]
           H == AsRecords(l.hub_records)
       IN  (SyncAllOver(l) /\ ~l.hub_records.is_none) =>
              /\ l.ret_kind = "value"
              /\ DOMAIN l.results = {s \in Spokes : enabled[s]}
              /\ \A s \in {x \in Spokes : enabled[x]} :
                    IF AdapterRaised(s)
                    THEN /\ l.results[s] = ZeroStats
                         /\ live[s] = l.live_at_call[s]
                    ELSE /\ l.results[s] = AloneStats(s, H)
                         /\ live[s] = AloneLive(s, l.live_at_call[s])
                         /\ AloneCalls(s, H, l.live_at_call[s])

\* a spoke's adapter raised, and the spoke after it was still reconciled
\* and got a record added
C8_Witness ==
    \E p \in SeqWorkers :
       LET l == loc[p] IN
       /\ SyncAllOver(l)
       /\ l.ret_kind = "value"
       /\ \E f \in Spokes, g \in Spokes :
            /\ f # g
            /\ AdapterRaised(f)
            /\ ~AdapterRaised(g)
            /\ DOMAIN l.results = {f, g}
            /\ l.results[g].added >= 1
            /\ \E i \in 1..Len(calls), j \in 1..Len(calls) :
                 /\ i < j
                 /\ calls[i].server = f /\ calls[i].result = "raise"
                 /\ calls[j].server = g /\ calls[j].method = "add_record"
                 /\ calls[j].result = "True"

\* the rows record_sync appended since the current operation started
NewRuns(l) == SubSeq(sync_runs, l.runs_at_call + 1, Len(sync_runs))

\* no cache was ever persisted when the current operation started
NoCacheAtCall(l) == l.meta_at_call = 0 /\ l.rows_at_call = {}

\* refresh_hub_cache has just returned: on its own, or inside perform_sync
RefreshReturned(l) ==
    \/ l.op = "refresh" /\ l.pc = "done"
    \/ l.op = "perform_sync" /\ l.pc \in {"ps_nocache", "create"}

\* a row of the history that reports spoke s skipped for want of a cache
IsCacheErrorRun(run, s, msg) ==
    /\ run.server_name = s
    /\ run.role = "spoke"
    /\ run.status = "error"
    /\ run.error = msg
    /\ run.added = 0 /\ run.removed = 0 /\ run.conflicts = 0

\* C9: cache unavailable. With no authoritative cache persisted and the hub
\* adapter failing, refresh_hub_cache returns None; perform_sync then (and
\* sync_all_enabled_spokes for each enabled spoke, whenever no cache is
\* persisted) appends exactly one history row with status error and a
\* cache-unavailability message for the spoke, creates and contacts no spoke
\* adapter, issues no add or delete, and returns all-zero stats (the store
\* taking the history write).
C9_CacheUnavailable ==
    \A p \in SeqWorkers :
       LET l == loc[p] IN
       /\ (RefreshReturned(l) /\ NoCacheAtCall(l) /\ AdapterRaised(Hub)) =>
             l.hub_records.is_none
       /\ (/\ l.op = "perform_sync" /\ l.pc = "done"
           /\ enabled[l.spoke]
           /\ NoCacheAtCall(l) /\ AdapterRaised(Hub) /\ ~DbRaised) =>
             /\ l.ret_kind = "value"
             /\ l.ret_stats = ZeroStats
             /\ Len(NewRuns(l)) = 1
             /\ IsCacheErrorRun(NewRuns(l)[1], l.spoke, MsgHubUnreachable)
             /\ NoSpokeCall
             /\ live = l.live_at_call
       /\ (/\ l.op = "sync_all" /\ l.pc = "done"
           /\ NoCacheAtCall(l) /\ ~DbRaised) =>
             /\ l.ret_kind = "value"
             /\ DOMAIN l.results = {s \in Spokes : enabled[s]}
             /\ \A s \in {x \in Spokes : enabled[x]} :
                  /\ l.results[s] = ZeroStats
                  /\ Cardinality({i \in 1..Len(NewRuns(l)) :
                                    NewRuns(l)[i].server_name = s}) = 1
             /\ \A i \in 1..Len(NewRuns(l)) :
                  /\ enabled[NewRuns(l)[i].server_name]
                  /\ IsCacheErrorRun(NewRuns(l)[i], NewRuns(l)[i].server_name,
                                     MsgNoCache)
             /\ NoSpokeCall
             /\ live = l.live_at_call

\* perform_sync met a failing hub with nothing cached and returned the empty
\* stats behind one error row
C9_Witness ==
    \E p \in SeqWorkers :
       LET l == loc[p] IN
       /\ l.op = "perform_sync" /\ l.pc = "done"
       /\ NoCacheAtCall(l)
       /\ AdapterRaised(Hub)
       /\ l.hub_records.is_none
       /\ l.ret_kind = "value"
       /\ Len(NewRuns(l)) = 1
       /\ NewRuns(l)[1].error = MsgHubUnreachable

\* sync_all_enabled_spokes found nothing cached and wrote an error row for
\* each of two enabled spokes
C9_SyncAllWitness ==
    \E p \in SeqWorkers :
       LET l == loc[p] IN
       /\ l.op = "sync_all" /\ l.pc = "done"
       /\ NoCacheAtCall(l)
       /\ l.ret_kind = "value"
       /\ Len(NewRuns(l)) = 2

\* a call of refresh_hub_cache failed: the adapter or the cache write raised
RefreshFailed == AdapterRaised(Hub) \/ DbRaised

\* what refresh_hub_cache gives back when it falls back on a persisted cache
CachedAtCall(l) ==
    [is_none |-> FALSE,
     A |-> {x[2] : x \in {y \in l.rows_at_call : y[1] = "A"}},
     CNAME |-> {x[2] : x \in {y \in l.rows_at_call : y[1] = "CNAME"}}]

\* the degraded branch, but for the value returned: no exception, one
\* hub-unreachable notification, cache and last_updated as they were
RefreshDegraded(l) ==
    /\ l.ret_kind # "raised"
    /\ Len(notifications) = l.notes_at_call + 1
    /\ notifications[Len(notifications)].kind = "hub_unreachable"
    /\ authoritative_records = l.rows_at_call
    /\ cache_meta = l.meta_at_call

\* C10: hub refresh failure is degraded, never thrown. When adapter
\* creation, connect, get_records or the cache write fails, refresh_hub_cache
\* does not raise, emits exactly one hub-unreachable notification, leaves
\* the persisted cache and its last_updated unchanged, and returns the last
\* persisted cache if one exists (last_updated is set), otherwise None.
C10_RefreshFailureDegraded ==
    \A p \in SeqWorkers :
       LET l == loc[p] IN
       (RefreshReturned(l) /\ RefreshFailed) =>
          /\ RefreshDegraded(l)
          /\ l.hub_records = IF l.meta_at_call # 0 THEN CachedAtCall(l)
                             ELSE NoneRecords

\* C10, as the code has it: the fallback is the persisted cache only where
\* it holds at least one row; an empty persisted snapshot comes back as None
C10_RefreshFailureAsCoded ==
    \A p \in SeqWorkers :
       LET l == loc[p] IN
       (RefreshReturned(l) /\ RefreshFailed) =>
          /\ RefreshDegraded(l)
          /\ l.hub_records = IF l.rows_at_call # {} THEN CachedAtCall(l)
                             ELSE NoneRecords

\* a refresh failed after an empty snapshot had been persisted
C10_EmptySnapshotLost ==
    \E p \in SeqWorkers :
       LET l == loc[p] IN
       /\ RefreshReturned(l) /\ RefreshFailed
       /\ l.meta_at_call # 0
       /\ l.rows_at_call = {}
       /\ l.hub_records.is_none

(***************************************************************************)
(* The hub cache on its own: refreshes of a hub whose records change, over *)
(* a store that may hold the snapshot of an earlier run of the service     *)
(***************************************************************************)
\* the hub's administrator replaces the hub's records, between two calls
\* (while a call is still to come)
HubEdit(S) ==
    /\ \A p \in Workers : loc[p].pc \in {"idle", "done"}
    /\ nops < MaxOps
    /\ S # live[Hub]
    /\ live' = [live EXCEPT ![Hub] = S]
    /\ UNCHANGED <<rtVars, envVars, dbVars, enabled, notifications, loc, calls, nops>>

\* the store at start-up: never written, or holding the snapshot P that a
\* refresh of an earlier run saved at time 1
InitRefresh ==
    /\ InitRt
    /\ InitEnv
    /\ InitRun
    /\ spoke_records = [s \in Spokes |-> {}]
    /\ sync_runs = <<>>
    /\ clock = 1
    /\ \/ authoritative_records = {} /\ cache_meta = 0
       \/ \E P \in HubSets : authoritative_records = Rows(P) /\ cache_meta = 1
    /\ \E S \in HubSets :
         live = [s \in Servers |-> IF s = Hub THEN S ELSE EmptyRecords]

NextRefresh ==
    \/ \E p \in SeqWorkers :
          \/ RefreshCall(p)
          \/ RefreshCreate(p)
          \/ RefreshConnect(p)
          \/ RefreshGetRecords(p)
          \/ RefreshSave(p)
          \/ RefreshExcept(p)
          \/ RefreshFinally(p)
    \/ \E S \in HubSets : HubEdit(S)

SpecRefresh == InitRefresh /\ [][NextRefresh]_vars

\* a call of refresh_hub_cache on its own has succeeded
RefreshSucceeded(l) ==
    /\ l.op = "refresh"
    /\ l.pc = "done"
    /\ ~RefreshFailed

\* C11: a successful hub refresh is a full replace that round-trips. For
\* every record set R the hub returns, after refresh_hub_cache succeeds the
\* call has returned R, get_cached_hub_records reports a cache as present
\* and returns exactly R per record type, no row of an earlier snapshot
\* remains, and last_updated is the time of this refresh.
C11_RefreshRoundTrips ==
    \A p \in SeqWorkers :
       LET l == loc[p]
           R == l.live_at_call[Hub]
       IN  RefreshSucceeded(l) =>
              /\ l.hub_records = Some(R)
              /\ get_cached_hub_records(authoritative_records) = Some(R)
              /\ authoritative_records = Rows(R)
              /\ cache_meta = clock
              /\ cache_meta >= l.meta_at_call

\* C11, as the code has it: the rows are exactly those of R and the call
\* returns R, but get_cached_hub_records reports an empty R as no cache
C11_RefreshRoundTripsAsCoded ==
    \A p \in SeqWorkers :
       LET l == loc[p]
           R == l.live_at_call[Hub]
       IN  RefreshSucceeded(l) =>
              /\ l.hub_records = Some(R)
              /\ get_cached_hub_records(authoritative_records)
                   = IF Rows(R) = {} THEN NoneRecords ELSE Some(R)
              /\ authoritative_records = Rows(R)
              /\ cache_meta = clock
              /\ cache_meta >= l.meta_at_call

\* a refresh of a hub that holds no records succeeded over an earlier
\* snapshot that held some, and the cache now reads as absent
C11_EmptySnapshotAbsent ==
    \E p \in SeqWorkers :
       LET l == loc[p] IN
       /\ RefreshSucceeded(l)
       /\ l.live_at_call[Hub] = EmptyRecords
       /\ l.rows_at_call # {}
       /\ authoritative_records = {}
       /\ cache_meta # 0
       /\ get_cached_hub_records(authoritative_records).is_none

(***************************************************************************)
(* db.save_hub_records / db.save_spoke_records, statement by statement,    *)
(* next to the readers of the same tables                                  *)
(***************************************************************************)
\* the tables a save replaces the rows of: the hub's, or a spoke's
StoreKeys == {Hub, "s1"}

\* the committed rows of a key
Committed(key) ==
    IF key = Hub THEN authoritative_records ELSE spoke_records[key]

\* sqlite3.connect(db_path) with the default isolation level, in WAL mode:
\* the statements of an open transaction are seen by its own connection
\* only; every other connection reads the rows last committed
TxVisible_dirty(committed, pending) == pending

TxVisible(committed, pending) == committed

\* the connections that hold an open write transaction on a key
Writers(key) == {w \in Workers : loc[w].tx_open /\ loc[w].key = key}

\* some connection holds the database's write lock
WriteLocked == \E w \in Workers : loc[w].tx_open

\* the rows of a key a reader's SELECT returns
Visible(key) ==
    IF Writers(key) = {} THEN Committed(key)
    ELSE LET w == CHOOSE x \in Writers(key) : TRUE
         IN  TxVisible(Committed(key), loc[w].tx_rows)

\* the complete record set a save in progress is writing to a key, or the
\* committed rows where no save is in progress
SavingRows(key) ==
    IF Writers(key) = {} THEN Committed(key)
    ELSE LET w == CHOOSE x \in Writers(key) : TRUE
         IN  Rows(AsRecords(loc[w].hub_records))

\* save_hub_records(db_path, hub_name, records) or
\* save_spoke_records(db_path, spoke_name, records): con = _connect(db_path)
SaveCall(p, key, records) ==
    /\ loc[p].pc \in {"idle", "done"}
    /\ nops < MaxOps
    /\ nops' = nops + 1
    /\ loc' = [loc EXCEPT ![p] =
                 [InitLoc EXCEPT !.op = "save", !.pc = "sv_delete",
                                 !.key = key,
                                 !.hub_records = Some(records),
                                 !.rows_at_call = Committed(key),
                                 !.meta_at_call = cache_meta]]
    /\ UNCHANGED <<rtVars, envVars, dbVars, live, enabled, notifications, calls>>

\* con.execute("DELETE FROM ... WHERE name = ?"): opens the transaction and
\* takes the write lock; raises when another connection holds it past the
\* timeout, or on any other error
SaveDelete(p) ==
    LET l == loc[p] IN
    /\ l.pc = "sv_delete"
    /\ \/ /\ ~WriteLocked
          /\ loc' = [loc EXCEPT ![p] =
                       [l EXCEPT !.pc = "sv_insert", !.tx_open = TRUE,
                                 !.tx_rows = {}, !.tx_meta = cache_meta,
                                 !.old_rows = Committed(l.key),
                                 !.new_rows = Rows(AsRecords(l.hub_records))]]
       \/ /\ loc' = [loc EXCEPT ![p] = [l EXCEPT !.pc = "sv_raise"]]
    /\ UNCHANGED <<rtVars, envVars, dbVars, live, enabled, notifications, calls, nops>>

\* one turn of the two for loops: con.execute("INSERT INTO ... VALUES ...")
SaveInsert(p) ==
    LET l == loc[p] IN
    /\ l.pc = "sv_insert"
    /\ \E row \in Rows(AsRecords(l.hub_records)) \ l.tx_rows :
         \/ loc' = [loc EXCEPT ![p] = [l EXCEPT !.tx_rows = @ \cup {row}]]
         \/ loc' = [loc EXCEPT ![p] = [l EXCEPT !.pc = "sv_raise"]]
    /\ UNCHANGED <<rtVars, envVars, dbVars, live, enabled, notifications, calls, nops>>

\* the loops are through. save_hub_records: INSERT OR REPLACE INTO
\* cache_meta; save_spoke_records has no such statement
SaveMeta(p) ==
    LET l == loc[p] IN
    /\ l.pc = "sv_insert"
    /\ Rows(AsRecords(l.hub_records)) \ l.tx_rows = {}
    /\ \/ \E now \in IF l.key = Hub THEN {clock, clock + 1} ELSE {clock} :
            /\ clock' = now
            /\ loc' = [loc EXCEPT ![p] =
                         [l EXCEPT !.pc = "sv_commit",
                                   !.tx_meta = IF l.key = Hub THEN now ELSE @]]
       \/ /\ l.key = Hub
          /\ loc' = [loc EXCEPT ![p] = [l EXCEPT !.pc = "sv_raise"]]
          /\ UNCHANGED clock
    /\ UNCHANGED <<rtVars, envVars, authoritative_records, cache_meta, spoke_records,
                   sync_runs, live, enabled, notifications, calls, nops>>

\* con.commit(); con.close(): the transaction's rows become the committed
\* rows, all at once
SaveCommit(p) ==
    LET l == loc[p] IN
    /\ l.pc = "sv_commit"
    /\ \/ /\ IF l.key = Hub
             THEN /\ authoritative_records' = l.tx_rows
                  /\ cache_meta' = l.tx_meta
                  /\ UNCHANGED spoke_records
             ELSE /\ spoke_records' = [spoke_records EXCEPT ![l.key] = l.tx_rows]
                  /\ UNCHANGED <<authoritative_records, cache_meta>>
          /\ loc' = [loc EXCEPT ![p] =
                       [l EXCEPT !.pc = "done", !.ret_kind = "value",
                                 !.tx_open = FALSE]]
       \/ /\ loc' = [loc EXCEPT ![p] = [l EXCEPT !.pc = "sv_raise"]]
          /\ UNCHANGED <<authoritative_records, cache_meta, spoke_records>>
    /\ UNCHANGED <<rtVars, envVars, sync_runs, clock, live, enabled, notifications,
                   calls, nops>>

\* a statement raised: the exception leaves the function before commit(),
\* and the connection goes with its frame; what it had not committed is
\* rolled back
SaveRaise(p) ==
    LET l == loc[p] IN
    /\ l.pc = "sv_raise"
    /\ loc' = [loc EXCEPT ![p] =
                 [l EXCEPT !.pc = "done", !.ret_kind = "raised",
                           !.tx_open = FALSE, !.tx_rows = {}]]
    /\ UNCHANGED <<rtVars, envVars, dbVars, live, enabled, notifications, calls, nops>>

\* get_cached_hub_records(db_path, hub_name) or
\* get_spoke_records(db_path, spoke_name): the SELECT ... fetchall()
ReadRecords(p, key) ==
    /\ loc[p].pc \in {"idle", "done"}
    /\ nops < MaxOps
    /\ nops' = nops + 1
    /\ loc' = [loc EXCEPT ![p] =
                 [InitLoc EXCEPT !.op = "read", !.pc = "done",
                                 !.key = key,
                                 !.ret_kind = "value",
                                 !.read_rows = Visible(key),
                                 !.old_rows = Committed(key),
                                 !.new_rows = SavingRows(key),
                                 !.hub_records =
                                    get_cached_hub_records(Visible(key))]]
    /\ UNCHANGED <<rtVars, envVars, dbVars, live, enabled, notifications, calls>>

\* the rows the store holds when the service starts: a snapshot of the hub
\* and one of the first spoke, saved by an earlier run
InitSaves ==
    /\ InitRt
    /\ InitEnv
    /\ InitRun
    /\ live = [s \in Servers |-> EmptyRecords]
    /\ sync_runs = <<>>
    /\ clock = 1
    /\ cache_meta = 1
    /\ \E P \in HubSets, Q \in HubSets :
         /\ authoritative_records = Rows(P)
         /\ spoke_records = [s \in Spokes |-> IF s = "s1" THEN Rows(Q) ELSE {}]

NextSaves ==
    \E p \in Workers :
       \/ \E key \in StoreKeys, records \in HubSets : SaveCall(p, key, records)
       \/ SaveDelete(p)
       \/ SaveInsert(p)
       \/ SaveMeta(p)
       \/ SaveCommit(p)
       \/ SaveRaise(p)
       \/ \E key \in StoreKeys : ReadRecords(p, key)

SpecSaves == InitSaves /\ [][NextSaves]_vars

\* C12: save_hub_records and save_spoke_records are atomic full replaces.
\* A get_cached_hub_records / get_spoke_records that runs while a save of
\* the same key is in progress, or after a save that failed partway, gets
\* the complete previous record set or the complete new one, never an
\* empty, partial or mixed set; and until a save commits, the committed
\* rows are the previous set.
C12_AtomicReplace ==
    \A p \in Workers :
       LET l == loc[p] IN
       /\ l.op = "read" => l.read_rows \in {l.old_rows, l.new_rows}
       /\ (l.op = "save" /\ l.tx_open) => Committed(l.key) = l.old_rows
       /\ (l.op = "save" /\ l.pc = "done" /\ l.ret_kind = "value") =>
             l.tx_rows = l.new_rows

\* a reader got the whole previous set while a save of the same key had
\* deleted it and inserted a part of the new one
C12_Witness ==
    \E r \in Workers, w \in Workers :
       /\ loc[r].op = "read"
       /\ loc[w].op = "save" /\ loc[w].tx_open
       /\ loc[w].key = loc[r].key
       /\ loc[w].tx_rows # {}
       /\ loc[w].tx_rows # loc[w].new_rows
       /\ loc[w].old_rows \notin {{}, loc[w].tx_rows, loc[w].new_rows}
       /\ loc[r].read_rows = loc[w].old_rows
       /\ loc[r].new_rows = loc[w].new_rows

\* a save failed after its DELETE and a later reader got the previous set
C12_FailedSaveWitness ==
    \E r \in Workers, w \in Workers :
       /\ loc[r].op = "read"
       /\ loc[w].op = "save" /\ loc[w].pc = "done" /\ loc[w].ret_kind = "raised"
       /\ loc[w].key = loc[r].key
       /\ loc[w].old_rows # {}
       /\ loc[w].new_rows # loc[w].old_rows
       /\ ~WriteLocked
       /\ loc[r].read_rows = loc[w].old_rows

\* C13: a spoke whose enabled flag is false is skipped entirely by
\* sync_all_enabled_spokes and by perform_sync: no adapter is created or
\* called for it, no history row is appended for it, its persisted records
\* and its live records are unchanged, it has no entry in the result map of
\* sync_all, and perform_sync returns all-zero stats at once.
C13_DisabledSkipped ==
    \A p \in SeqWorkers :
       LET l == loc[p] IN
       /\ l.op = "sync_all" =>
             \A s \in {x \in Spokes : ~enabled[x]} :
                /\ \A i \in 1..Len(calls) : calls[i].server # s
                /\ \A i \in 1..Len(NewRuns(l)) : NewRuns(l)[i].server_name # s
                /\ spoke_records[s] = l.spoke_rows_at_call[s]
                /\ live[s] = l.live_at_call[s]
                /\ s \notin DOMAIN l.results
       /\ (l.op = "perform_sync" /\ ~enabled[l.spoke]) =>
             /\ l.pc = "done"
             /\ l.ret_kind = "value"
             /\ l.ret_stats = ZeroStats
             /\ calls = <<>>
             /\ NewRuns(l) = <<>>
             /\ spoke_records = l.spoke_rows_at_call
             /\ live = l.live_at_call
             /\ Len(notifications) = l.notes_at_call

\* sync_all_enabled_spokes returned after syncing the enabled spoke and
\* passing over the disabled one
C13_Witness ==
    \E p \in SeqWorkers :
       LET l == loc[p] IN
       /\ l.op = "sync_all" /\ l.pc = "done" /\ l.ret_kind = "value"
       /\ ~enabled["s2"]
       /\ DOMAIN l.results = {"s1"}
       /\ l.results["s1"].added >= 1
       /\ live["s2"] # AsRecords(l.hub_records)

\* perform_sync was called for a disabled spoke
C13_PerformSyncWitness ==
    \E p \in SeqWorkers :
       LET l == loc[p] IN
       /\ l.op = "perform_sync" /\ l.pc = "done"
       /\ ~enabled[l.spoke]
       /\ l.ret_stats = ZeroStats

(***************************************************************************)
(* One spoke, synced again and again against a hub whose records change    *)
(***************************************************************************)
\* the configuration with the one spoke "s1", enabled
InitSpoke ==
    /\ InitRt
    /\ InitEnv
    /\ InitStore
    /\ InitRun
    /\ \E S \in HubSets, T \in SpokeSets :
         live = [s \in Servers |-> IF s = Hub THEN S
                                   ELSE IF s = "s1" THEN T ELSE EmptyRecords]

NextSpoke ==
    \/ \E S \in HubSets : HubEdit(S)
    \/ \E p \in SeqWorkers :
          \/ RefreshCall(p)
          \/ RefreshCreate(p)
          \/ RefreshConnect(p)
          \/ RefreshGetRecords(p)
          \/ RefreshSave(p)
          \/ RefreshExcept(p)
          \/ RefreshFinally(p)
          \/ SyncAllCall(p, <<"s1">>)
          \/ SyncAllNoCache(p)
          \/ SyncAllBegin(p)
          \/ SyncAllReturn(p)
          \/ PerformSyncCall(p, "s1")
          \/ PerformSyncNoCache(p)
          \/ SpokeCreate(p)
          \/ SpokeConnect(p)
          \/ ApplyDiffGetRecords(p)
          \/ ApplyDiffAdd(p)
          \/ ApplyDiffRemove(p)
          \/ ApplyDiffNextType(p)
          \/ ApplyDiffReturn(p)
          \/ SpokeSave(p)
          \/ SpokeRecord(p)
          \/ SpokeExcept(p)
          \/ SpokeFinally(p)

SpecSpoke == InitSpoke /\ [][NextSpoke]_vars

\* the sync of the current spoke is at its finally clause, its adapter has
\* not raised, and its save_spoke_records has committed
SpokeSaved(l) ==
    /\ l.op \in SpokeOps
    /\ l.pc = "finally"
    /\ ~AdapterRaised(l.spoke)
    /\ \E i \in 1..Len(calls) :
         /\ calls[i] = DbCall("save_spoke_records", "True")
         /\ \A j \in (i + 1)..Len(calls) : calls[j].server = "db"

\* C14: after a spoke sync that completes without an adapter-level
\* exception, the persisted state of that spoke, as get_spoke_records gives
\* it, is exactly the hub snapshot that was the diff source, whatever the
\* spoke held before and whatever was persisted for it before.
C14_SpokeStateIsHubSnapshot ==
    \A p \in SeqWorkers :
       LET l == loc[p]
           H == AsRecords(l.hub_records)
       IN  SpokeSaved(l) =>
              /\ spoke_records[l.spoke] = Rows(H)
              /\ get_spoke_records(spoke_records[l.spoke]) = Some(H)

\* C14, as the code has it: the rows persisted are exactly those of the
\* snapshot, but get_spoke_records gives None for an empty snapshot
C14_SpokeStateAsCoded ==
    \A p \in SeqWorkers :
       LET l == loc[p]
           H == AsRecords(l.hub_records)
       IN  SpokeSaved(l) =>
              /\ H = l.source_records
              /\ spoke_records[l.spoke] = Rows(H)
              /\ get_spoke_records(spoke_records[l.spoke])
                   = IF Rows(H) = {} THEN NoneRecords ELSE Some(H)

\* a spoke with a persisted state was synced against a hub that holds no
\* records: its state now reads as never stored
C14_EmptyStateAbsent ==
    \E p \in SeqWorkers :
       LET l == loc[p] IN
       /\ SpokeSaved(l)
       /\ l.spoke_rows_at_call[l.spoke] # {}
       /\ AsRecords(l.hub_records) = EmptyRecords
       /\ get_spoke_records(spoke_records[l.spoke]).is_none

\* a spoke's persisted state was replaced by a different, non-empty snapshot
C14_ReplacedWitness ==
    \E p \in SeqWorkers :
       LET l == loc[p] IN
       /\ SpokeSaved(l)
       /\ l.spoke_rows_at_call[l.spoke] # {}
       /\ spoke_records[l.spoke] # {}
       /\ spoke_records[l.spoke] # l.spoke_rows_at_call[l.spoke]
       /\ l.live0 # AsRecords(l.hub_records)

\* the history rows of a server written since the current operation started
NewRunsOf(l, s) ==
    SelectSeq(NewRuns(l), LAMBDA run : run.server_name = s)

\* the sync-failed notifications about a server emitted since the current
\* operation started
NewFailuresOf(l, s) ==
    SelectSeq(SubSeq(notifications, l.notes_at_call + 1, Len(notifications)),
              LAMBDA n : n.kind = "sync_failed" /\ n.server_name = s)

\* the stats the sync of the current spoke hands back
SpokeResult(l) ==
    IF l.op = "sync_all" THEN l.results[l.spoke] ELSE l.ret_stats

\* the sync of the current spoke is at its finally clause after its adapter
\* raised at creation, connect or get_records; the store took every write
SpokeAdapterFailed(l) ==
    /\ l.op \in SpokeOps
    /\ l.pc = "finally"
    /\ AdapterRaised(l.spoke)
    /\ ~DbRaised

\* what C15 promises but for the status of the history row
SpokeFailureConverted(l) ==
    /\ ~l.raising
    /\ (l.op = "sync_all" => l.spoke \in DOMAIN l.results)
    /\ SpokeResult(l) = ZeroStats
    /\ Len(NewRunsOf(l, l.spoke)) = 1
    /\ NewRunsOf(l, l.spoke)[1].error = l.err
    /\ NewRunsOf(l, l.spoke)[1].added = 0
    /\ NewRunsOf(l, l.spoke)[1].removed = 0
    /\ NewRunsOf(l, l.spoke)[1].conflicts = 0
    /\ Len(NewFailuresOf(l, l.spoke)) = 1
    /\ NewFailuresOf(l, l.spoke)[1].error = l.err
    /\ spoke_records[l.spoke] = l.spoke_rows_at_call[l.spoke]

\* C15: a spoke adapter failure is converted, not raised. If the adapter
\* raises at creation, connect or get_records, with any exception and any
\* message, the sync of that spoke returns normally with all-zero stats,
\* appends exactly one history row for the spoke with status error and the
\* exception's message, emits exactly one sync-failed notification, and
\* leaves the spoke's persisted state unchanged.
C15_AdapterFailureConverted ==
    \A p \in SeqWorkers :
       LET l == loc[p] IN
       SpokeAdapterFailed(l) =>
          /\ SpokeFailureConverted(l)
          /\ NewRunsOf(l, l.spoke)[1].status = "error"

\* C15, as the code has it: the status is error only where the exception's
\* message is not empty
C15_AdapterFailureAsCoded ==
    \A p \in SeqWorkers :
       LET l == loc[p] IN
       SpokeAdapterFailed(l) =>
          /\ SpokeFailureConverted(l)
          /\ NewRunsOf(l, l.spoke)[1].status
               = IF l.err = "" THEN "success" ELSE "error"

\* an adapter raised an exception with no message and the history row of
\* the failed sync says success
C15_EmptyMessageSuccess ==
    \E p \in SeqWorkers :
       LET l == loc[p] IN
       /\ SpokeAdapterFailed(l)
       /\ l.err = ""
       /\ Len(NewRunsOf(l, l.spoke)) = 1
       /\ NewRunsOf(l, l.spoke)[1].status = "success"
       /\ Len(NewFailuresOf(l, l.spoke)) = 1

\* the hub fetch of the current operation failed: the adapter raised, or
\* save_hub_records did
HubFetchFailed ==
    \/ AdapterRaised(Hub)
    \/ \E i \in 1..Len(calls) : calls[i] = DbCall("save_hub_records", "raise")

\* what the refresh at the head of perform_sync returned: the fresh set, or
\* the cache as it was persisted when the fetch failed
RefreshValue(l) ==
    IF HubFetchFailed THEN get_cached_hub_records(l.rows_at_call)
    ELSE Some(l.live_at_call[Hub])

C16_FreshWitness ==
    \E p \in SeqWorkers :
       LET l == loc[p] IN
       /\ l.op = "perform_sync" /\ l.pc = "done" /\ l.ret_kind = "value"
       /\ ~HubFetchFailed
       /\ l.ret_stats.added >= 1
       /\ l.rows_at_call = {}

\* the sync of the current spoke is at its finally clause; _apply_diff had
\* returned after changing the live spoke, and then save_spoke_records or
\* record_sync raised
SpokePersistenceFailed(l) ==
    /\ l.op \in SpokeOps
    /\ l.pc = "finally"
    /\ ~AdapterRaised(l.spoke)
    /\ l.stats.added + l.stats.removed >= 1
    /\ live[l.spoke] # l.live0
    /\ \E i \in 1..Len(calls) :
         /\ calls[i].server = "db"
         /\ calls[i].method \in {"save_spoke_records", "record_sync"}
         /\ calls[i].result = "raise"
         /\ \A j \in i..Len(calls) : calls[j].server = "db"

\* C17: a persistence failure does not unwind a reconciliation that already
\* happened. If save_spoke_records or record_sync raises after _apply_diff
\* has changed the live spoke, no exception escapes the spoke sync, the
\* stats returned for the spoke are the applied counts, and the sync is not
\* reported as failed (no sync-failed notification, no zeroed result).
C17_PersistenceFailureKeepsResult ==
    \A p \in SeqWorkers :
       LET l == loc[p] IN
       SpokePersistenceFailed(l) =>
          /\ ~l.raising
          /\ (l.op = "sync_all" => l.spoke \in DOMAIN l.results)
          /\ SpokeResult(l) = l.stats
          /\ Len(NewFailuresOf(l, l.spoke)) = 0

\* C17, as the code has it: the except clause of the spoke sync takes the
\* store's exception for a failed sync; it zeroes the result and notifies,
\* or, where its own record_sync raises too, lets the exception out
C17_PersistenceFailureAsCoded ==
    \A p \in SeqWorkers :
       LET l == loc[p] IN
       SpokePersistenceFailed(l) =>
          \/ /\ l.raising
             /\ Len(NewFailuresOf(l, l.spoke)) = 0
          \/ /\ ~l.raising
             /\ SpokeResult(l) = ZeroStats
             /\ Len(NewFailuresOf(l, l.spoke)) = 1
             /\ NewFailuresOf(l, l.spoke)[1].error = MsgDbError
             /\ NewRunsOf(l, l.spoke)[Len(NewRunsOf(l, l.spoke))].status = "error"

\* records were added to the live spoke, a store write raised, and the sync
\* came back with all-zero stats and a sync-failed notification
C17_ReconciliationReportedFailed ==
    \E p \in SeqWorkers :
       LET l == loc[p] IN
       /\ SpokePersistenceFailed(l)
       /\ ~l.raising
       /\ l.stats.added >= 1
       /\ SpokeResult(l) = ZeroStats
       /\ Len(NewFailuresOf(l, l.spoke)) = 1

(***************************************************************************)
(* History management: DELETE /api/history -> db.clear_history             *)
(***************************************************************************)
\* the server query parameter of the route: "" stands for every server
HistoryFilters == {"", "s1"}

\* db.clear_history(db_path, server_name=server or None): DELETE FROM
\* sync_runs, of one server's rows or of all
ClearHistory(p, server) ==
    /\ loc[p].pc \in {"idle", "done"}
    /\ nops < MaxOps
    /\ nops' = nops + 1
    /\ calls' = <<>>
    /\ sync_runs' = IF server = "" THEN <<>>
                    ELSE SelectSeq(sync_runs,
                                   LAMBDA run : run.server_name # server)
    /\ loc' = [loc EXCEPT ![p] =
                 AtCall([InitLoc EXCEPT !.op = "clear_history", !.pc = "done",
                                        !.ret_kind = "value"])]
    /\ UNCHANGED <<rtVars, envVars, authoritative_records, cache_meta, spoke_records,
                   clock, live, enabled, notifications>>

NextHistory ==
    \/ NextSpoke
    \/ \E p \in SeqWorkers, server \in HistoryFilters : ClearHistory(p, server)

SpecHistory == InitSpoke /\ [][NextHistory]_vars

\* every row of the history is still there, unchanged, after the step
HistoryKept ==
    /\ Len(sync_runs') >= Len(sync_runs)
    /\ \A i \in 1..Len(sync_runs) : sync_runs'[i] = sync_runs[i]

\* C18: the sync history is append-only. Across any sequence of hub
\* refreshes, spoke syncs, manual triggers and history management, a row
\* once written keeps all its field values and is never removed.
C18_HistoryAppendOnly == [][HistoryKept]_vars

\* C18, as the code has it: every operation but clear_history keeps the rows
C18_AppendOnlyButClear ==
    [][HistoryKept
       \/ \E p \in SeqWorkers, server \in HistoryFilters :
             ClearHistory(p, server)]_vars

\* DELETE /api/history removed rows that syncs had written
C18_RowsRemoved ==
    \E p \in SeqWorkers :
       LET l == loc[p] IN
       /\ l.op = "clear_history"
       /\ l.runs_at_call >= 1
       /\ Len(sync_runs) < l.runs_at_call

(***************************************************************************)
(* Concurrent syncs: the routes and the background loop hand sync.py's     *)
(* functions to the default executor (loop.run_in_executor(None, ...)),    *)
(* a thread pool; app.py takes no lock around them.                        *)
(***************************************************************************)
\* the store is empty, or holds the snapshot of an earlier refresh; the hub
\* has records and the spoke has a record the hub has not
InitConcurrent ==
    /\ InitRt
    /\ InitEnv
    /\ InitRun
    /\ spoke_records = [s \in Spokes |-> {}]
    /\ sync_runs = <<>>
    /\ clock = 1
    /\ \E S \in HubSets \ {EmptyRecords}, T \in SpokeSets \ {EmptyRecords} :
         /\ live = [s \in Servers |-> IF s = Hub THEN S
                                      ELSE IF s = "s1" THEN T ELSE EmptyRecords]
         /\ \/ authoritative_records = {} /\ cache_meta = 0
            \/ authoritative_records = Rows(S) /\ cache_meta = 1

\* the calls at which a thread is seen to wait while another one runs. Every
\* adapter and store call blocks and lets the other threads of the pool run;
\* the behaviours with a switch at these calls only are a subset of the
\* pool's behaviours, small enough to enumerate
SwitchPoints == {"idle", "done", "get_records"}

\* worker p is scheduled: every other worker waits at a switch point
Scheduled(p) == \A q \in Workers \ {p} : loc[q].pc \in SwitchPoints

NextConcurrent ==
    \E p \in Workers :
       \/ Scheduled(p) /\ RefreshCreate(p)
       \/ Scheduled(p) /\ RefreshConnect(p)
       \/ Scheduled(p) /\ RefreshGetRecords(p)
       \/ Scheduled(p) /\ RefreshSave(p)
       \/ Scheduled(p) /\ RefreshExcept(p)
       \/ Scheduled(p) /\ RefreshFinally(p)
       \/ Scheduled(p) /\ SyncAllCall(p, <<"s1">>)
       \/ Scheduled(p) /\ SyncAllNoCache(p)
       \/ Scheduled(p) /\ SyncAllBegin(p)
       \/ Scheduled(p) /\ SyncAllReturn(p)
       \/ Scheduled(p) /\ PerformSyncCall(p, "s1")
       \/ Scheduled(p) /\ PerformSyncNoCache(p)
       \/ Scheduled(p) /\ SpokeCreate(p)
       \/ Scheduled(p) /\ SpokeConnect(p)
       \/ Scheduled(p) /\ ApplyDiffGetRecords(p)
       \/ Scheduled(p) /\ ApplyDiffAdd(p)
       \/ Scheduled(p) /\ ApplyDiffRemove(p)
       \/ Scheduled(p) /\ ApplyDiffNextType(p)
       \/ Scheduled(p) /\ ApplyDiffReturn(p)
       \/ Scheduled(p) /\ SpokeSave(p)
       \/ Scheduled(p) /\ SpokeRecord(p)
       \/ Scheduled(p) /\ SpokeExcept(p)
       \/ Scheduled(p) /\ SpokeFinally(p)

SpecConcurrent == InitConcurrent /\ [][NextConcurrent]_vars

\* worker p is syncing spoke s: its adapter has connected and the history
\* row of this sync is not yet written
Reconciling(p, s) ==
    LET l == loc[p] IN
    /\ l.op \in SpokeOps
    /\ l.spoke = s
    /\ l.target = s
    /\ l.pc \notin {"idle", "done", "finally", "sa_loop"}

\* C19: per-spoke mutual exclusion. For every spoke, at most one sync of it
\* is between its adapter connect and its history write at any time.
C19_SpokeMutualExclusion ==
    \A s \in Spokes :
       \A p, q \in Workers :
          Reconciling(p, s) /\ Reconciling(q, s) => p = q

\* two syncs of the same spoke, started by two requests, are both between
\* connect and history write
C19_TwoSyncsInterleave ==
    \E p, q \in Workers :
       /\ p # q
       /\ Reconciling(p, "s1")
       /\ Reconciling(q, "s1")
       /\ loc[p].op = "perform_sync"
       /\ loc[q].op \in SpokeOps

(***************************************************************************)
(* The background loop: _background_sync_loop, one cycle after another     *)
(***************************************************************************)
\* the loop is between two cycles: asleep, or back from the last call of a
\* cycle
BetweenCycles(l) ==
    \/ l.pc = "idle"
    \/ l.pc = "done" /\ l.op = "tick"
    \/ l.pc = "done" /\ l.op = "sync_all" /\ l.ret_kind # "raised"
    \/ l.pc = "done" /\ l.op = "refresh" /\ l.ret_kind = "None"

\* "hub_records = await loop.run_in_executor(None, refresh_hub_cache, ...)"
\* after the sleep: a cycle starts
LoopRefresh(p) ==
    /\ BetweenCycles(loc[p])
    /\ RefreshCall(p)

\* "if hub_records is not None: await loop.run_in_executor(None,
\* sync_all_enabled_spokes, ...)": the same cycle goes on
LoopSyncAll(p) ==
    /\ loc[p].op = "refresh"
    /\ loc[p].pc = "done"
    /\ loc[p].ret_kind = "value"
    /\ calls' = <<>>
    /\ loc' = [loc EXCEPT ![p] =
                 AtCall([InitLoc EXCEPT
                           !.op = "sync_all", !.pc = "sa_loop",
                           !.spokes = <<"s1">>,
                           !.hub_records =
                              get_cached_hub_records(authoritative_records)])]
    /\ UNCHANGED <<rtVars, envVars, dbVars, live, enabled, notifications, nops>>

\* drift: somebody edits the spoke's records by hand, while the loop is not
\* in a call and has a cycle to come
SpokeEdit(T) ==
    /\ \A p \in Workers : loc[p].pc \in {"idle", "done"}
    /\ nops < MaxOps
    /\ T # live["s1"]
    /\ live' = [live EXCEPT !["s1"] = T]
    /\ UNCHANGED <<rtVars, envVars, dbVars, enabled, notifications, loc, calls, nops>>

LoopSteps ==
    \E p \in SeqWorkers :
       \/ LoopRefresh(p)
       \/ RefreshCreate(p)
       \/ RefreshConnect(p)
       \/ RefreshGetRecords(p)
       \/ RefreshSave(p)
       \/ RefreshExcept(p)
       \/ RefreshFinally(p)
       \/ LoopSyncAll(p)
       \/ SyncAllNoCache(p)
       \/ SyncAllBegin(p)
       \/ SyncAllReturn(p)
       \/ SpokeCreate(p)
       \/ SpokeConnect(p)
       \/ ApplyDiffGetRecords(p)
       \/ ApplyDiffAdd(p)
       \/ ApplyDiffRemove(p)
       \/ ApplyDiffNextType(p)
       \/ ApplyDiffReturn(p)
       \/ SpokeSave(p)
       \/ SpokeRecord(p)
       \/ SpokeExcept(p)
       \/ SpokeFinally(p)

NextLoop ==
    \/ \E T \in SpokeSets : SpokeEdit(T)
    \/ LoopSteps

\* the hub keeps returning the set it has at start-up; the store is empty
SpecLoop == InitSpoke /\ [][NextLoop]_vars

\* the loop is a task that sleeps a finite interval and runs again, and the
\* executor runs what it is handed: a step of the loop that stays possible
\* is taken
SpecLoopFair == SpecLoop /\ WF_vars(LoopSteps)

\* a call to an adapter or to the store has failed in the current call
Faulted == Faults # {}

\* the spoke's live A and CNAME sets are the hub's
Converged == live["s1"] = live[Hub]

C20_ConvergenceUnlessEmpty ==
    (<>Faulted) \/ <>[](Converged \/ live[Hub] = EmptyRecords)

C20_EmptyHubCycleChangesNothing ==
    [][live[Hub] = EmptyRecords
         => (live' = live \/ \E T \in SpokeSets : SpokeEdit(T))]_vars

(***************************************************************************)
(* The scheduler tick: _background_sync_loop from the top of "while True"  *)
(* and the routes that switch auto-sync on and off                         *)
(***************************************************************************)
\* POST /api/settings/enable and /api/settings/disable: _save_settings
\* rewrites settings.json, at any time
EnableSync ==
    /\ ~settings_enabled
    /\ settings_enabled' = TRUE
    /\ UNCHANGED <<rtVars, dbVars, runVars, hub_configured, session_cache,
                   pihole>>

DisableSync ==
    /\ settings_enabled
    /\ settings_enabled' = FALSE
    /\ UNCHANGED <<rtVars, dbVars, runVars, hub_configured, session_cache,
                   pihole>>

\* "settings = _load_settings(...)" at the top of the loop body, then
\* "await asyncio.sleep(interval * 60)": the tick sleeps
LoopLoad(p) ==
    /\ BetweenCycles(loc[p])
    /\ nops < MaxOps
    /\ nops' = nops + 1
    /\ calls' = <<>>
    /\ loc' = [loc EXCEPT ![p] =
                 [InitLoc EXCEPT !.op = "tick", !.pc = "lp_sleep",
                                 !.settings = [enabled |-> settings_enabled]]]
    /\ UNCHANGED <<rtVars, envVars, dbVars, live, enabled, notifications>>

\* the sleep ends: "if not settings.get('enabled', True): continue" tests the
\* dict loaded before the sleep; "if not hub_cfgs: continue"; else
\* refresh_hub_cache is handed to the executor
LoopWake(p) ==
    LET l == loc[p] IN
    /\ l.pc = "lp_sleep"
    /\ loc' = [loc EXCEPT ![p] =
                 IF ~l.settings.enabled
                 THEN [l EXCEPT !.pc = "done", !.ret_kind = "disabled",
                                !.enabled_at_wake = settings_enabled]
                 ELSE IF ~hub_configured
                 THEN [l EXCEPT !.pc = "done", !.ret_kind = "no hub",
                                !.enabled_at_wake = settings_enabled]
                 ELSE AtCall([InitLoc EXCEPT
                                !.op = "refresh", !.pc = "rh_create",
                                !.settings = l.settings,
                                !.enabled_at_wake = settings_enabled])]
    /\ UNCHANGED <<rtVars, envVars, dbVars, live, enabled, notifications,
                   calls, nops>>

NextTick ==
    \/ EnableSync
    \/ DisableSync
    \/ \E p \in SeqWorkers :
          \/ LoopLoad(p)
          \/ LoopWake(p)
          \/ RefreshCreate(p)
          \/ RefreshConnect(p)
          \/ RefreshGetRecords(p)
          \/ RefreshSave(p)
          \/ RefreshExcept(p)
          \/ RefreshFinally(p)
          \/ LoopSyncAll(p)
          \/ SyncAllNoCache(p)
          \/ SyncAllBegin(p)
          \/ SyncAllReturn(p)
          \/ SpokeCreate(p)
          \/ SpokeConnect(p)
          \/ ApplyDiffGetRecords(p)
          \/ ApplyDiffAdd(p)
          \/ ApplyDiffRemove(p)
          \/ ApplyDiffNextType(p)
          \/ ApplyDiffReturn(p)
          \/ SpokeSave(p)
          \/ SpokeRecord(p)
          \/ SpokeExcept(p)
          \/ SpokeFinally(p)

\* the service has started: auto-sync is on or off, a hub is configured or
\* not, the store is empty; the hub holds any record set, none included
InitTick ==
    /\ InitRt
    /\ InitStore
    /\ InitRun
    /\ settings_enabled \in BOOLEAN
    /\ hub_configured \in BOOLEAN
    /\ session_cache = 0
    /\ pihole = [valid |-> {}, issued |-> 0]
    /\ \E S \in HubSets, T \in SpokeSets :
         live = [s \in Servers |-> IF s = Hub THEN S
                                   ELSE IF s = "s1" THEN T ELSE EmptyRecords]

SpecTick == InitTick /\ [][NextTick]_vars

\* the sleep of worker p's tick ends in this step
Wakes(p) == loc[p].pc = "lp_sleep" /\ loc'[p].pc # "lp_sleep"

\* C21: a scheduler tick runs a sync cycle only if auto-sync is still
\* enabled when its sleep ends. If the flag is off when the sleep of a tick
\* finishes, that tick invokes neither refresh_hub_cache nor
\* sync_all_enabled_spokes; if it is on (and a hub is configured), the tick
\* does run the cycle.
C21_TickTestsFlagAtWake ==
    [][\A p \in SeqWorkers :
          Wakes(p) =>
             /\ ~settings_enabled => loc'[p].op = "tick"
             /\ settings_enabled /\ hub_configured
                   => loc'[p].op = "refresh"]_vars

\* C21, as the code has it: the tick tests the flag it read before sleeping
C21_TickTestsFlagAtLoad ==
    [][\A p \in SeqWorkers :
          Wakes(p) =>
             /\ ~loc[p].settings.enabled => loc'[p].op = "tick"
             /\ loc[p].settings.enabled /\ hub_configured
                   => loc'[p].op = "refresh"]_vars

\* auto-sync was switched off during the sleep and the tick runs its cycle
C21_CycleRunsWhileDisabled ==
    \E p \in SeqWorkers :
       LET l == loc[p] IN
       /\ l.op = "refresh"
       /\ l.pc = "rh_create"
       /\ l.settings.enabled
       /\ ~l.enabled_at_wake
       /\ ~settings_enabled

\* worker p's loop takes its first step after refresh_hub_cache returned
AfterRefresh(p) ==
    /\ loc[p].op = "refresh"
    /\ loc[p].pc = "done"
    /\ loc'[p] # loc[p]

\* the tick of worker p invokes sync_all_enabled_spokes in this step
InvokesSyncAll(p) == loc[p].op # "sync_all" /\ loc'[p].op = "sync_all"

\* C22: in every scheduler tick that is due, enabled and has a hub
\* configured, refresh_hub_cache is invoked and is followed in the same tick
\* by sync_all_enabled_spokes, in that order; when no hub is configured the
\* tick invokes neither and the loop goes on to the next tick.
C22_RefreshThenSyncAll ==
    [][\A p \in SeqWorkers :
          /\ Wakes(p) /\ loc[p].settings.enabled /\ settings_enabled
               => IF hub_configured
                  THEN loc'[p].op = "refresh" /\ loc'[p].pc = "rh_create"
                  ELSE loc'[p].op = "tick" /\ BetweenCycles(loc'[p])
          /\ AfterRefresh(p) => InvokesSyncAll(p)
          /\ InvokesSyncAll(p) => loc[p].op = "refresh" /\ loc[p].pc = "done"
      ]_vars

\* C22, as the code has it: sync_all_enabled_spokes follows only when
\* refresh_hub_cache returned records; when it returned None the tick is
\* over and the next one is loaded
C22_SyncAllUnlessNone ==
    [][\A p \in SeqWorkers :
          /\ Wakes(p) /\ loc[p].settings.enabled /\ settings_enabled
               => IF hub_configured
                  THEN loc'[p].op = "refresh" /\ loc'[p].pc = "rh_create"
                  ELSE loc'[p].op = "tick" /\ BetweenCycles(loc'[p])
          /\ AfterRefresh(p) =>
               IF loc[p].ret_kind = "None"
               THEN loc'[p].op = "tick" /\ loc'[p].pc = "lp_sleep"
               ELSE InvokesSyncAll(p)
          /\ InvokesSyncAll(p) => loc[p].op = "refresh" /\ loc[p].pc = "done"
      ]_vars

\* the refresh of a tick returned None, no spoke has a history row, and the
\* next tick is asleep: sync_all_enabled_spokes was not invoked
C22_TickWithoutSyncAll ==
    \E p \in SeqWorkers :
       /\ loc[p].op = "tick"
       /\ loc[p].pc = "lp_sleep"
       /\ nops = MaxOps
       /\ sync_runs = <<>>
       /\ Len(notifications) >= 1
       /\ \A i \in 1..Len(notifications) :
             notifications[i].kind = "hub_unreachable"

\* the coroutine of the background loop has ended: an exception came out of
\* the function it awaited, and the loop has no try around its body
LoopDead(l) == l.pc = "done" /\ l.ret_kind = "raised"

\* C23: no failure inside a sync cycle terminates the background loop.
\* After a tick in which the hub adapter, a spoke adapter, a notification or
\* a persistence call fails, the loop still reaches its next tick.
C23_LoopSurvivesFailures ==
    \A p \in SeqWorkers : ~LoopDead(loc[p])

\* C23, as the code has it: adapter failures never end the loop; it ends
\* only when a write of the history row raises where nothing catches it
C23_OnlyStoreFailureEndsLoop ==
    \A p \in SeqWorkers :
       LoopDead(loc[p]) =>
          /\ loc[p].op = "sync_all"
          /\ \E i \in 1..Len(calls) : calls[i] = DbCall("record_sync", "raise")

\* the loop is dead, no tick can be loaded, and ticks were still to come
C23_LoopEnded ==
    \E p \in SeqWorkers :
       /\ LoopDead(loc[p])
       /\ loc[p].op = "sync_all"
       /\ nops < MaxOps
       /\ ~ENABLED LoopLoad(p)

(***************************************************************************)
(* servers/pihole.py: PiHoleServer.connect and the module-level            *)
(* _session_cache. Sids are 1, 2, ... in the order the server issues them, *)
(* 0 stands for None. Every session of the server is one of this           *)
(* application's (same User-Agent).                                        *)
(***************************************************************************)
\* a new adapter object (self.sid = None) enters connect():
\* "cached = _session_cache.get(self.base_url)"
PiholeConnect(p) ==
    /\ loc[p].pc \in {"idle", "done"}
    /\ nops < MaxOps
    /\ nops' = nops + 1
    /\ loc' = [loc EXCEPT ![p] =
                 [InitLoc EXCEPT !.op = "connect", !.pc = "pc_test",
                                 !.cached = session_cache,
                                 !.cache_at_call = session_cache]]
    /\ UNCHANGED <<rtVars, envVars, dbVars, live, enabled, notifications,
                   calls>>

\* "if cached and self._test_session(cached['sid'])": no probe without a
\* cached session; the probe is False when the server does not know the sid
\* and when the request raises; on True _apply_session and "return True"
PiholeTestSession(p) ==
    LET l == loc[p] IN
    /\ l.pc = "pc_test"
    /\ IF l.cached = 0
       THEN loc' = [loc EXCEPT ![p] = [l EXCEPT !.pc = "pc_auth"]]
       ELSE \E answered \in BOOLEAN :
              loc' = [loc EXCEPT ![p] =
                 IF answered /\ l.cached \in pihole.valid
                 THEN [l EXCEPT !.pc = "done", !.ret_kind = "True",
                                !.sid = l.cached, !.probe = "valid",
                                !.requests = Append(@, "probe")]
                 ELSE [l EXCEPT !.pc = "pc_del", !.probe = "invalid",
                                !.requests = Append(@, "probe")]]
    /\ UNCHANGED <<rtVars, envVars, dbVars, live, enabled, notifications,
                   calls, nops>>

\* "if cached: del _session_cache[self.base_url]": KeyError when the entry
\* is gone, and the statement is outside the try of connect
PiholeDelCached(p) ==
    LET l == loc[p] IN
    /\ l.pc = "pc_del"
    /\ IF session_cache = 0
       THEN /\ loc' = [loc EXCEPT ![p] =
                         [l EXCEPT !.pc = "done", !.ret_kind = "raised",
                                   !.err = "KeyError"]]
            /\ UNCHANGED session_cache
       ELSE /\ session_cache' = 0
            /\ loc' = [loc EXCEPT ![p] = [l EXCEPT !.pc = "pc_auth"]]
    /\ UNCHANGED <<rtVars, dbVars, live, enabled, notifications, calls, nops,
                   settings_enabled, hub_configured, pihole>>

\* POST /api/auth. On success the server issues a new sid and
\* _apply_session sets self.sid; status 429, an HTTP error or a transport
\* error leave connect as ConnectionError
PiholeAuth(p) ==
    LET l == loc[p]
        sid == pihole.issued + 1 IN
    /\ l.pc = "pc_auth"
    /\ \/ /\ pihole' = [valid |-> pihole.valid \cup {sid}, issued |-> sid]
          /\ loc' = [loc EXCEPT ![p] =
                       [l EXCEPT !.pc = "pc_cache", !.sid = sid,
                                 !.requests = Append(@, "auth")]]
       \/ /\ loc' = [loc EXCEPT ![p] =
                       [l EXCEPT !.pc = "done", !.ret_kind = "raised",
                                 !.err = "ConnectionError",
                                 !.requests = Append(@, "auth")]]
          /\ UNCHANGED pihole
    /\ UNCHANGED <<rtVars, dbVars, live, enabled, notifications, calls, nops,
                   settings_enabled, hub_configured, session_cache>>

\* the entry written by "_session_cache[self.base_url] = {'sid': sid, ...}"
CacheEntry_kept(sid) == session_cache

CacheEntry(sid) == sid

PiholeCacheSession(p) ==
    LET l == loc[p] IN
    /\ l.pc = "pc_cache"
    /\ session_cache' = CacheEntry(l.sid)
    /\ loc' = [loc EXCEPT ![p] = [l EXCEPT !.pc = "pc_cleanup"]]
    /\ UNCHANGED <<rtVars, dbVars, live, enabled, notifications, calls, nops,
                   settings_enabled, hub_configured, pihole>>

\* _cleanup_orphaned_sessions, GET /api/auth/sessions with the adapter's
\* own sid: every session but its own is an orphan. A status other than 200
\* (its own sid is no longer valid) or an exception ends the cleanup.
PiholeListSessions(p) ==
    LET l == loc[p] IN
    /\ l.pc = "pc_cleanup"
    /\ \E answered \in BOOLEAN :
         loc' = [loc EXCEPT ![p] =
            IF answered /\ l.sid \in pihole.valid
            THEN [l EXCEPT !.pc = "pc_orphans",
                           !.orphans = pihole.valid \ {l.sid}]
            ELSE [l EXCEPT !.pc = "done", !.ret_kind = "True"]]
    /\ UNCHANGED <<rtVars, envVars, dbVars, live, enabled, notifications,
                   calls, nops>>

\* the DELETE /api/auth/sessions/{id} requests of the cleanup, which the
\* server obeys while the adapter's own sid is valid; then "return True"
PiholeDeleteOrphans(p) ==
    LET l == loc[p] IN
    /\ l.pc = "pc_orphans"
    /\ pihole' = IF l.sid \in pihole.valid
                 THEN [pihole EXCEPT !.valid = @ \ l.orphans]
                 ELSE pihole
    /\ loc' = [loc EXCEPT ![p] = [l EXCEPT !.pc = "done", !.ret_kind = "True"]]
    /\ UNCHANGED <<rtVars, dbVars, live, enabled, notifications, calls, nops,
                   settings_enabled, hub_configured, session_cache>>

\* disconnect(): self.sid = None; the cache entry is not touched
PiholeDisconnect(p) ==
    LET l == loc[p] IN
    /\ l.op = "connect"
    /\ l.pc = "done"
    /\ l.ret_kind = "True"
    /\ loc' = [loc EXCEPT ![p] =
                 [l EXCEPT !.op = "disconnect", !.sid = 0,
                           !.cache_at_call = session_cache]]
    /\ UNCHANGED <<rtVars, envVars, dbVars, live, enabled, notifications,
                   calls, nops>>

\* the Pi-hole server ends a session on its own (session timeout)
PiholeExpire ==
    /\ \E sid \in pihole.valid : pihole' = [pihole EXCEPT !.valid = @ \ {sid}]
    /\ UNCHANGED <<rtVars, dbVars, runVars, settings_enabled, hub_configured,
                   session_cache>>

PiholeSteps(p) ==
    \/ PiholeConnect(p)
    \/ PiholeTestSession(p)
    \/ PiholeDelCached(p)
    \/ PiholeAuth(p)
    \/ PiholeCacheSession(p)
    \/ PiholeListSessions(p)
    \/ PiholeDeleteOrphans(p)
    \/ PiholeDisconnect(p)

\* no session yet, or the session an earlier sync cycle left in the cache,
\* still valid on the server or expired
InitPihole ==
    /\ InitRt
    /\ InitStore
    /\ InitRun
    /\ live = [s \in Servers |-> EmptyRecords]
    /\ settings_enabled = TRUE
    /\ hub_configured = TRUE
    /\ \/ session_cache = 0 /\ pihole = [valid |-> {}, issued |-> 0]
       \/ session_cache = 1 /\ pihole = [valid |-> {1}, issued |-> 1]
       \/ session_cache = 1 /\ pihole = [valid |-> {}, issued |-> 1]

\* one sync cycle at a time
NextPihole ==
    \/ PiholeExpire
    \/ \E p \in SeqWorkers : PiholeSteps(p)

SpecPihole == InitPihole /\ [][NextPihole]_vars

\* two sync cycles, in two threads of the executor
NextPiholeRace ==
    \/ PiholeExpire
    \/ \E p \in Workers : PiholeSteps(p)

SpecPiholeRace == InitPihole /\ [][NextPiholeRace]_vars

\* connect() of worker p returned True
Connected(l) == l.op = "connect" /\ l.pc = "done" /\ l.ret_kind = "True"

\* C24: session reuse in PiHoleServer.connect. The validity probe of the
\* cached session precedes any authentication request; a fresh
\* authentication happens only when there is no cached session or the probe
\* reports it invalid, otherwise the cached sid is reused with no
\* authentication request. After every successful connect the adapter's sid
\* equals the session cached for the base URL, and disconnect leaves the
\* cache entry in place.
C24_SessionReuse ==
    \A p \in SeqWorkers :
       LET l == loc[p] IN
       /\ l.op = "connect" =>
            /\ l.requests \in {<<>>, <<"probe">>, <<"auth">>,
                               <<"probe", "auth">>}
            /\ (l.cached # 0 /\ l.pc # "pc_test") => l.requests[1] = "probe"
            /\ (\E i \in 1..Len(l.requests) : l.requests[i] = "auth")
                  => l.cached = 0 \/ l.probe = "invalid"
            /\ l.probe = "valid" =>
                  /\ Connected(l)
                  /\ l.requests = <<"probe">>
                  /\ l.sid = l.cached
            /\ Connected(l) => l.sid # 0 /\ l.sid = session_cache
       /\ l.op = "disconnect" =>
            /\ l.sid = 0
            /\ session_cache # 0
            /\ session_cache = l.cache_at_call

\* a connect reused the session that an earlier connect of this run cached
C24_Witness ==
    \E p \in SeqWorkers :
       /\ Connected(loc[p])
       /\ nops = MaxOps
       /\ loc[p].probe = "valid"
       /\ loc[p].sid = pihole.issued
       /\ session_cache = loc[p].sid

\* the cached session had expired: probe, then a fresh authentication
C24_ReauthWitness ==
    \E p \in SeqWorkers :
       /\ Connected(loc[p])
       /\ loc[p].requests = <<"probe", "auth">>
       /\ loc[p].sid # loc[p].cached
       /\ session_cache = loc[p].sid

\* a connect after a disconnect, and the entry is still in the cache
C24_DisconnectWitness ==
    \E p \in SeqWorkers :
       /\ loc[p].op = "disconnect"
       /\ session_cache \in pihole.valid

\* the adapter of worker p holds a session: connect() returned True and
\* disconnect() has not been called
Holds(p, sid) == Connected(loc[p]) /\ loc[p].sid = sid

\* every adapter is out of connect()
NoConnectRunning ==
    \A p \in Workers : loc[p].op = "connect" => loc[p].pc = "done"

\* C25: access to the process-wide session cache is synchronized. When two
\* sync cycles connect concurrently to the same Pi-hole base URL, no connect
\* fails because of the cache's read-check-then-delete/write sequence; every
\* adapter that returned successfully from connect holds a session that is
\* not invalidated by the other connect's orphan cleanup until it
\* disconnects; afterwards the cache entry names a session that is valid on
\* the server unless the server has expired it.
C25_SessionCacheSynchronized ==
    [][/\ \A p \in Workers : loc'[p].err # "KeyError"
       /\ \A p, q \in Workers :
             (p # q /\ PiholeDeleteOrphans(q))
                => \A sid \in pihole.valid :
                      Holds(p, sid) => sid \in pihole'.valid
       /\ (\E p \in Workers : PiholeSteps(p)) /\ NoConnectRunning'
             /\ session_cache' # 0 /\ session_cache' \in pihole.valid
                => session_cache' \in pihole'.valid
      ]_vars

\* two connects found the same expired entry; the second del raised KeyError
C25_KeyErrorWitness ==
    \E p, q \in Workers :
       /\ p # q
       /\ loc[p].op = "connect" /\ loc[p].err = "KeyError"
       /\ loc[q].op = "connect" /\ loc[q].requests = <<"probe", "auth">>

\* a connected adapter holds a session that the other connect's cleanup
\* deleted on the server
C25_SessionKilledWitness ==
    \E p, q \in Workers :
       /\ p # q
       /\ Connected(loc[p]) /\ loc[p].sid \notin pihole.valid
       /\ Connected(loc[q]) /\ loc[q].sid \in pihole.valid
       /\ loc[p].sid \in loc[q].orphans

(***************************************************************************)
(* servers/base.py: DNSServer._request_with_retry                          *)
(***************************************************************************)
\* what one "self.session.request(...); response.raise_for_status()" does:
\* a response with a good status, a transport failure (ConnectionError,
\* Timeout) or an error status (HTTPError raised by raise_for_status); the
\* three exceptions are requests.exceptions.RequestException
RequestOutcomes == {"ok", "transport", "http"}

\* self.retries = config.get('retries', 3)
RetryCounts == 0..MaxRetries

\* _request_with_retry(method, url) on an adapter configured with retries
RequestWithRetry(p, retries) ==
    /\ loc[p].pc \in {"idle", "done"}
    /\ nops < MaxOps
    /\ nops' = nops + 1
    /\ loc' = [loc EXCEPT ![p] =
                 [InitLoc EXCEPT !.op = "request", !.pc = "rq_attempt",
                                 !.retries = retries]]
    /\ UNCHANGED <<rtVars, envVars, dbVars, live, enabled, notifications,
                   calls>>

\* one turn of "for attempt in range(self.retries)": the request; return on
\* success; on RequestException raise if this was the last attempt, else
\* time.sleep((attempt + 1) * 2). When the range is exhausted (or empty) the
\* function falls off its end and returns None.
RequestAttempt(p) ==
    LET l == loc[p] IN
    /\ l.pc = "rq_attempt"
    /\ IF l.attempt >= l.retries
       THEN loc' = [loc EXCEPT ![p] =
                      [l EXCEPT !.pc = "done", !.ret_kind = "None"]]
       ELSE \E outcome \in RequestOutcomes :
              loc' = [loc EXCEPT ![p] =
                 IF outcome = "ok"
                 THEN [l EXCEPT !.pc = "done", !.ret_kind = "response",
                                !.requests = Append(@, outcome)]
                 ELSE IF l.attempt = l.retries - 1
                 THEN [l EXCEPT !.pc = "done", !.ret_kind = "raised",
                                !.err = outcome,
                                !.requests = Append(@, outcome)]
                 ELSE [l EXCEPT !.attempt = @ + 1,
                                !.waits = Append(@, (l.attempt + 1) * 2),
                                !.requests = Append(@, outcome)]]
    /\ UNCHANGED <<rtVars, envVars, dbVars, live, enabled, notifications,
                   calls, nops>>

NextRequest ==
    \E p \in SeqWorkers :
       \/ \E retries \in RetryCounts : RequestWithRetry(p, retries)
       \/ RequestAttempt(p)

SpecRequest == InitEngine /\ [][NextRequest]_vars

\* the k-th request attempt of l failed
FailedAttempt(l, k) == l.requests[k] # "ok"

\* _request_with_retry has returned or raised
RequestOver(l) == l.op = "request" /\ l.pc = "done"

\* bounded attempts, first success returned, last failure raised after
\* exactly retries failures, waits of 2k seconds after the k-th failure but
\* the last
RetryContract(l) ==
    /\ Len(l.requests) <= l.retries
    /\ \A k \in 1..(Len(l.requests) - 1) : FailedAttempt(l, k)
    /\ Len(l.waits) = Len(l.requests) - (IF l.pc = "done" THEN 1 ELSE 0)
    /\ \A k \in 1..Len(l.waits) : l.waits[k] = 2 * k
    /\ RequestOver(l) =>
         \/ /\ l.ret_kind = "response"
            /\ l.requests[Len(l.requests)] = "ok"
         \/ /\ l.ret_kind = "raised"
            /\ Len(l.requests) = l.retries
            /\ FailedAttempt(l, l.retries)
            /\ l.err = l.requests[l.retries]

\* C26: retries are bounded. For every configured retry count,
\* _request_with_retry terminates after at most retries request attempts; it
\* returns the first successful response, otherwise raises the last failure
\* after exactly retries failed attempts, waiting 2k seconds after the k-th
\* failed attempt and not after the last one; it never returns without
\* either a successful response or an exception.
C26_RetriesBounded ==
    \A p \in SeqWorkers : loc[p].op = "request" => RetryContract(loc[p])

\* C26, as the code has it: the contract holds for every retries >= 1; with
\* retries = 0 the function makes no request and returns None
C26_RetriesBoundedFromOne ==
    \A p \in SeqWorkers :
       LET l == loc[p] IN
       l.op = "request" =>
          IF l.retries >= 1 THEN RetryContract(l)
          ELSE /\ l.requests = <<>>
               /\ l.waits = <<>>
               /\ RequestOver(l) => l.ret_kind = "None"

\* retries = 0: returned None, no request made, nothing raised
C26_ReturnsNone ==
    \E p \in SeqWorkers :
       /\ RequestOver(loc[p])
       /\ loc[p].retries = 0
       /\ loc[p].ret_kind = "None"
       /\ loc[p].requests = <<>>

\* C27: non-transient failures are not retried. When a request in
\* _request_with_retry fails non-transiently (the server answers with an
\* HTTP error status), the call fails immediately after that single attempt
\* with no backoff wait; only transient transport failures lead to further
\* attempts.
C27_NonTransientNotRetried ==
    \A p \in SeqWorkers :
       LET l == loc[p] IN
       l.op = "request" =>
          \A k \in 1..Len(l.requests) :
             l.requests[k] = "http" =>
                /\ k = Len(l.requests)
                /\ Len(l.waits) < k
                /\ l.pc = "done"
                /\ l.ret_kind = "raised"
                /\ l.err = "http"

\* C27, as the code has it: an error status is retried like a transport
\* failure, and raised only when it comes at the last attempt
C27_HttpErrorIsRetried ==
    \A p \in SeqWorkers :
       LET l == loc[p] IN
       l.op = "request" =>
          \A k \in 1..Len(l.requests) :
             l.requests[k] = "http" =>
                IF k = l.retries
                THEN RequestOver(l) /\ l.ret_kind = "raised" /\ l.err = "http"
                ELSE Len(l.waits) >= k /\ l.waits[k] = 2 * k

\* an error status at the first attempt, a wait of 2 seconds, a second
\* request, and the call returned its response
C27_RetriedAfterHttpError ==
    \E p \in SeqWorkers :
       /\ RequestOver(loc[p])
       /\ loc[p].requests = <<"http", "ok">>
       /\ loc[p].waits = <<2>>
       /\ loc[p].ret_kind = "response"

(***************************************************************************)
(* POST /api/sync/{server_name}: trigger_sync looks the name up with       *)
(* cfg.get_server and hands its config to perform_sync as spoke_cfg,       *)
(* whatever its sync_mode: the name may be the hub's                       *)
(***************************************************************************)
NextTrigger ==
    \/ \E S \in HubSets : HubEdit(S)
    \/ \E p \in SeqWorkers :
          \/ \E server_name \in {Hub, "s1"} : PerformSyncCall(p, server_name)
          \/ RefreshCreate(p)
          \/ RefreshConnect(p)
          \/ RefreshGetRecords(p)
          \/ RefreshSave(p)
          \/ RefreshExcept(p)
          \/ RefreshFinally(p)
          \/ PerformSyncNoCache(p)
          \/ SpokeCreate(p)
          \/ SpokeConnect(p)
          \/ ApplyDiffGetRecords(p)
          \/ ApplyDiffAdd(p)
          \/ ApplyDiffRemove(p)
          \/ ApplyDiffNextType(p)
          \/ ApplyDiffReturn(p)
          \/ SpokeSave(p)
          \/ SpokeRecord(p)
          \/ SpokeExcept(p)
          \/ SpokeFinally(p)

SpecTrigger == InitRefresh /\ [][NextTrigger]_vars

\* C28: the hub is never a mutation target. Across every sync trigger, in
\* every reachable state including hub-refresh failure with a stale cache,
\* add_record and delete_record are never called on the server whose
\* sync_mode is hub.
C28_HubNeverMutated ==
    \A i \in 1..Len(calls) :
       calls[i].server = Hub
          => calls[i].method \notin {"add_record", "delete_record"}

\* C28, as the code has it: the hub is a target only when its own name is
\* given to /api/sync/{server_name}
C28_HubMutatedOnlyByOwnTrigger ==
    \A p \in SeqWorkers :
       loc[p].spoke # Hub => C28_HubNeverMutated

\* /api/sync/hub with a stale cache: the refresh failed, the diff of the
\* cache against the hub's live records was applied to the hub, and the
\* hub's records are those of the stale cache again
C28_HubRolledBack ==
    \E p \in SeqWorkers :
       LET l == loc[p] IN
       /\ l.op = "perform_sync"
       /\ l.pc = "done"
       /\ l.spoke = Hub
       /\ HubFetchFailed
       /\ \E i \in 1..Len(calls) :
             calls[i].server = Hub /\ calls[i].method = "add_record"
                /\ calls[i].result = "True"
       /\ live[Hub] # l.live_at_call[Hub]
       /\ Rows(live[Hub]) = l.rows_at_call

\* the sync of the current spoke has just recorded its history row, with
\* status success, and is at its finally clause
RecordedSuccess(l) ==
    /\ l.op \in SpokeOps
    /\ l.pc = "finally"
    /\ ~l.raising
    /\ Len(sync_runs) > l.runs_at_call
    /\ sync_runs[Len(sync_runs)].server_name = l.spoke
    /\ sync_runs[Len(sync_runs)].status = "success"

\* the persisted SpokeState and the counts of the last history row are those
\* of the spoke's live records
RecordedIsLive(s) ==
    LET run == sync_runs[Len(sync_runs)] IN
    /\ spoke_records[s] = Rows(live[s])
    /\ run.a_records = Cardinality(live[s].A)
    /\ run.cname_records = Cardinality(live[s].CNAME)

\* every call made to the adapter of server s returned True
AllTrue(s) ==
    \A i \in 1..Len(calls) : calls[i].server = s => calls[i].result = "True"

\* C29: recorded state matches reality. Whenever a spoke sync is recorded
\* with status success, the persisted SpokeState and the history row's
\* a_records / cname_records counts equal the spoke's actual live record set
\* at the end of that sync, for every combination of per-record add/delete
\* outcomes (True, False, exception).
C29_RecordedMatchesLive ==
    \A p \in SeqWorkers :
       RecordedSuccess(loc[p]) => RecordedIsLive(loc[p].spoke)

\* C29, as the code has it: what is recorded is the hub's set, which is the
\* spoke's live set when every adapter call returned True
C29_RecordedIsHubSet ==
    \A p \in SeqWorkers :
       LET l == loc[p]
           run == sync_runs[Len(sync_runs)] IN
       RecordedSuccess(l) =>
          /\ AllTrue(l.spoke) => RecordedIsLive(l.spoke)
          /\ ~AdapterRaised(l.spoke) =>
               /\ spoke_records[l.spoke] = Rows(AsRecords(l.hub_records))
               /\ run.a_records = Cardinality(l.hub_records.A)
               /\ run.cname_records = Cardinality(l.hub_records.CNAME)

\* add_record returned False: the row says success and counts the hub's
\* records, SpokeState holds the hub's set, the spoke lacks the record
C29_ConflictRecordedAsApplied ==
    \E p \in SeqWorkers :
       LET l == loc[p] IN
       /\ RecordedSuccess(l)
       /\ l.stats.conflicts >= 1
       /\ \E i \in 1..Len(calls) :
            /\ calls[i].server = l.spoke
            /\ calls[i].method = "add_record"
            /\ calls[i].result = "False"
       /\ spoke_records[l.spoke] = Rows(AsRecords(l.hub_records))
       /\ spoke_records[l.spoke] # Rows(live[l.spoke])

(***************************************************************************)
(* A manual sync racing a batch, while the hub's records change            *)
(***************************************************************************)
\* the hub's administrator replaces the hub's records while the threads of
\* the pool wait at a switch point
HubChange(S) ==
    /\ \A p \in Workers : loc[p].pc \in SwitchPoints
    /\ nops < MaxOps
    /\ S # live[Hub]
    /\ live' = [live EXCEPT ![Hub] = S]
    /\ UNCHANGED <<rtVars, envVars, dbVars, enabled, notifications, loc, calls,
                   nops>>

\* the service has converged: the cache, the spoke and its persisted state
\* hold the hub's records
InitStale ==
    /\ InitRt
    /\ InitEnv
    /\ InitRun
    /\ sync_runs = <<>>
    /\ clock = 1
    /\ cache_meta = 1
    /\ \E S \in HubSets \ {EmptyRecords} :
         /\ live = [s \in Servers |-> IF s \in {Hub, "s1"} THEN S
                                      ELSE EmptyRecords]
         /\ authoritative_records = Rows(S)
         /\ spoke_records = [s \in Spokes |-> IF s = "s1" THEN Rows(S) ELSE {}]

\* w1 serves POST /api/sync/s1 (perform_sync), w2 runs a batch
\* (sync_all_enabled_spokes); with a snapshot in the cache neither meets the
\* "no cache" branches
NextStale ==
    \/ \E S \in HubSets \ {EmptyRecords} : HubChange(S)
    \/ Scheduled("w1") /\ PerformSyncCall("w1", "s1")
    \/ Scheduled("w2") /\ SyncAllCall("w2", <<"s1">>)
    \/ \E p \in Workers :
          \/ Scheduled(p) /\ RefreshCreate(p)
          \/ Scheduled(p) /\ RefreshConnect(p)
          \/ Scheduled(p) /\ RefreshGetRecords(p)
          \/ Scheduled(p) /\ RefreshSave(p)
          \/ Scheduled(p) /\ RefreshExcept(p)
          \/ Scheduled(p) /\ RefreshFinally(p)
          \/ Scheduled(p) /\ SyncAllBegin(p)
          \/ Scheduled(p) /\ SyncAllReturn(p)
          \/ Scheduled(p) /\ SpokeCreate(p)
          \/ Scheduled(p) /\ SpokeConnect(p)
          \/ Scheduled(p) /\ ApplyDiffGetRecords(p)
          \/ Scheduled(p) /\ ApplyDiffAdd(p)
          \/ Scheduled(p) /\ ApplyDiffRemove(p)
          \/ Scheduled(p) /\ ApplyDiffNextType(p)
          \/ Scheduled(p) /\ ApplyDiffReturn(p)
          \/ Scheduled(p) /\ SpokeSave(p)
          \/ Scheduled(p) /\ SpokeRecord(p)
          \/ Scheduled(p) /\ SpokeExcept(p)
          \/ Scheduled(p) /\ SpokeFinally(p)

SpecStale == InitStale /\ [][NextStale]_vars

\* the manual sync and the batch have both returned
BothFinished ==
    /\ loc["w1"].op = "perform_sync" /\ loc["w1"].pc = "done"
    /\ loc["w2"].op = "sync_all" /\ loc["w2"].pc = "done"

\* no call failed in either: nothing raised, no notification was sent, and
\* both history rows say success with no conflict
BothClean ==
    /\ Faults = {}
    /\ notifications = <<>>
    /\ \A p \in Workers : loc[p].ret_kind = "value"
    /\ Len(sync_runs) = 2
    /\ \A i \in 1..Len(sync_runs) :
          sync_runs[i].status = "success" /\ sync_runs[i].conflicts = 0

\* C30: a stale snapshot is never applied over a fresh one. If a manual
\* perform_sync of a spoke runs concurrently with a sync_all_enabled_spokes
\* batch that loaded the hub cache before the hub changed, then once both
\* have finished (all adapter calls succeeding) the spoke's live records and
\* its persisted SpokeState equal the most recently persisted hub cache.
C30_StaleNeverOverFresh ==
    (BothFinished /\ BothClean) =>
       /\ Rows(live["s1"]) = authoritative_records
       /\ spoke_records["s1"] = authoritative_records

\* C30, as the code has it: the spoke and its SpokeState end as the snapshot
\* of whichever sync wrote last, the batch's stale one included
C30_LastWriterWins ==
    (BothFinished /\ BothClean) =>
       \E p \in Workers :
          /\ live["s1"] = AsRecords(loc[p].hub_records)
          /\ spoke_records["s1"] = Rows(AsRecords(loc[p].hub_records))

\* the batch loaded the cache, the hub changed, the manual sync refreshed
\* the cache and brought the spoke to it, and the batch then applied its
\* stale snapshot: the spoke and its SpokeState are behind the cache
C30_StaleApplied ==
    /\ BothFinished
    /\ BothClean
    /\ authoritative_records = Rows(live[Hub])
    /\ loc["w2"].rows_at_call # authoritative_records
    /\ Rows(live["s1"]) = loc["w2"].rows_at_call
    /\ spoke_records["s1"] = loc["w2"].rows_at_call
    /\ sync_runs[1].added + sync_runs[1].removed >= 1
    /\ sync_runs[2].added + sync_runs[2].removed >= 1

====
